---------------------------- MODULE Spec2Model ----------------------------
(***************************************************************************)
(* Model of the Boost Agency API: the plans repository (models/Plan.js)    *)
(* over a PostgreSQL store reached through config/database.js, the         *)
(* content repository (models/Content.js) and the authentication           *)
(* middleware (middleware/auth.js).                                        *)
(*                                                                         *)
(* The store is PostgreSQL at its default isolation level, READ COMMITTED: *)
(* config/database.js issues a bare BEGIN and sets no isolation level.     *)
(* A statement sees the rows committed when it starts plus the writes of   *)
(* its own transaction; an UPDATE locks each row it writes until its       *)
(* transaction ends, waits for a row another transaction has locked and    *)
(* then re-checks its WHERE clause on the newest version of that row.      *)
(* The repository holds no schema: the plans table is taken to have the    *)
(* unique key on plan_id that the code relies on and no other constraint.  *)
(***************************************************************************)
EXTENDS Integers, Sequences, FiniteSets, TLC

\* ------------------------------------------------------------------ bounds
NumPlans == 2
NumProcs == 2
MaxOrder == 1
MaxBatch == 2
MaxOverlap == 0
MaxFields == 1
NumUsers == 1
NumReqs == 1
MaxTokens == 1
MaxClock == 3
MaxTotal == 3
MaxImport == 2
PoolMax == 1

PlanIds == 1..NumPlans
Procs == 1..NumProcs
Orders == 0..MaxOrder

\* ------------------------------------------------------------ plans table
\* plans: the committed rows; pc, args: where each caller is and with what
\* arguments; txw: the uncommitted writes (and row locks) of each caller's
\* transaction; todo: the rows the statement in progress has yet to visit;
\* hit: whether that statement has written a row; outcome: how the call
\* ended. History: solo, conc, pre (see StartCall).
VARIABLES plans, pc, args, txw, todo, hit, outcome, solo, conc, pre

planVars == <<plans, pc, args, txw, todo, hit, outcome, solo, conc, pre>>

\* The content table and the calls of Content in progress.
VARIABLES content, cpc, cargs, coutcome, cconc, cpre, cread

contentVars == <<content, cpc, cargs, coutcome, cconc, cpre, cread>>

\* The users table, the tokens issued so far and the requests in progress.
VARIABLES users, issued, req

authVars == <<users, issued, req>>

\* One record of one of the tables services, plans, products, blog_posts and
\* leads (ent), the time of the store (now), the call of a repository on it
\* that ended last (ecall) and, history, the call before that one (eprev).
VARIABLES ent, now, ecall, eprev

entityVars == <<ent, now, ecall, eprev>>

\* The number of rows of each paginated table that match the filters of the
\* list request (matching) and the list request that ended last (pcall).
VARIABLES matching, pcall

pagingVars == <<matching, pcall>>

\* The GET request that a router dispatched last.
VARIABLE served

\* The clients of the pool that are checked out (inUse) and, for each caller
\* of transaction(), where the call is (tpc), how it ended (tend), which
\* step failed (tfailed) and how often it called client.release (treleases).
VARIABLES inUse, tpc, tend, tfailed, treleases

poolVars == <<inUse, tpc, tend, tfailed, treleases>>

\* The number of rows of the users table with each email (emailRows) and the
\* requests to POST /auth/register (rcall). History: fresh and overlapped of
\* a request.
VARIABLES emailRows, rcall

registerVars == <<emailRows, rcall>>

\* The last response of a read endpoint that asks for no credentials.
VARIABLE pubres

vars ==
    <<planVars, contentVars, authVars, entityVars, pagingVars, served,
      poolVars, registerVars, pubres>>

\* What a step of the plans repository leaves alone.
PlanFrame == UNCHANGED <<contentVars, authVars, entityVars, pagingVars, served,
      poolVars,
                registerVars, pubres>>

validStatuses == {"active", "inactive"}

\* A row of the plans table; a plan_id with no row is AbsentRow.
AbsentRow ==
    [present |-> FALSE, is_featured |-> FALSE, display_order |-> 0,
     status |-> "inactive"]

EmptyTable == [id \in PlanIds |-> AbsentRow]

NoWrite == [w |-> FALSE, row |-> AbsentRow]

NoWrites == [id \in PlanIds |-> NoWrite]

NoArgs ==
    [op |-> "none", plan_id |-> 0, featured |-> FALSE, batch |-> <<>>, i |-> 0]

\* The rows a statement of process p sees: the committed rows overlaid with
\* the uncommitted writes of p's own transaction.
View(p) ==
    [id \in PlanIds |-> IF txw[p][id].w THEN txw[p][id].row ELSE plans[id]]

\* Row id is locked by a transaction other than p's.
Locked(id, p) == \E q \in Procs \ {p} : txw[q][id].w

FeaturedIds(t) == {id \in PlanIds : t[id].present /\ t[id].is_featured}

\* Plan.getFeatured: the active featured rows of least display_order (the
\* query returns one of them with LIMIT 1; the empty set is null).
getFeatured(t) ==
    LET c == {id \in PlanIds :
                t[id].present /\ t[id].status = "active" /\ t[id].is_featured}
    IN {id \in c : \A o \in c : t[id].display_order <= t[o].display_order}

\* Calls overlap in this model when each carries at most MaxOverlap batch
\* items (a call that is no batch carries none); a longer batch runs alone.
MayStart(q, n) ==
    \A p \in Procs \ {q} :
        \/ pc[p] = "idle"
        \/ n <= MaxOverlap /\ Len(args[p].batch) <= MaxOverlap

\* f with the entry of q set to v and the entry of every idle process, whose
\* finished call now lies in the past, reset to none.
Fresh(f, q, v, none) ==
    [p \in Procs |-> IF p = q THEN v ELSE IF pc[p] = "idle" THEN none ELSE f[p]]

Transactional == {"setFeatured", "reorder"}

\* A call starts in q, the first free of the slots for calls in progress.
\* History: q runs alone (solo) iff every other slot is idle, and then pre[q]
\* keeps the table as it was before a transactional call; conc marks the
\* calls that overlap another call.
StartCall(q, n, a, o) ==
    LET alone == \A p \in Procs \ {q} : pc[p] = "idle" IN
    /\ pc[q] = "idle"
    /\ \A p \in Procs : p < q => pc[p] # "idle"
    /\ MayStart(q, n)
    /\ args' = Fresh(args, q, a, NoArgs)
    /\ outcome' = Fresh(outcome, q, o, "none")
    /\ solo' = [p \in Procs |-> IF p = q THEN alone ELSE FALSE]
    /\ pre' = [p \in Procs |->
                IF p = q /\ alone /\ a.op \in Transactional THEN plans
                ELSE EmptyTable]
    /\ conc' = [p \in Procs |-> IF p = q THEN ~alone ELSE pc[p] # "idle"]

\* ---------------------------------------------------- single statements
\* Plan.create: one autocommitted INSERT; plan_id is the unique business key.
create(p, id, featured, order, status) ==
    /\ StartCall(p, 0,
                 [NoArgs EXCEPT !.op = "create"],
                 IF plans[id].present THEN "duplicate" ELSE "ok")
    /\ plans' = IF plans[id].present THEN plans
                ELSE [plans EXCEPT ![id] =
                        [present |-> TRUE, is_featured |-> featured,
                         display_order |-> order, status |-> status]]
    /\ UNCHANGED <<pc, txw, todo, hit>>
    /\ PlanFrame

\* The allow-listed fields a caller of Plan.update may send (the fields that
\* matter to the plans table of this model); has_x is FALSE for a field
\* that is missing or undefined. At most MaxFields fields are sent at once.
UpdateInputs ==
    {u \in [has_f : BOOLEAN, f : BOOLEAN, has_o : BOOLEAN, o : Orders,
            has_s : BOOLEAN, s : validStatuses] :
        /\ (~u.has_f => u.f = FALSE)
        /\ (~u.has_o => u.o = 0)
        /\ (~u.has_s => u.s = "active")
        /\ Cardinality({k \in {1, 2, 3} : <<u.has_f, u.has_o, u.has_s>>[k]})
             <= MaxFields}

applyUpdates(row, u) ==
    [present |-> TRUE,
     is_featured |-> IF u.has_f THEN u.f ELSE row.is_featured,
     display_order |-> IF u.has_o THEN u.o ELSE row.display_order,
     status |-> IF u.has_s THEN u.s ELSE row.status]

\* Plan.update: one autocommitted UPDATE ... WHERE plan_id = $n (an empty
\* update throws before any statement). The statement waits while another
\* transaction holds the row.
update(p, id, u) ==
    LET empty == ~(u.has_f \/ u.has_o \/ u.has_s) IN
    /\ empty \/ ~Locked(id, p)
    /\ StartCall(p, 0, [NoArgs EXCEPT !.op = "update"],
                 IF empty THEN "invalid"
                 ELSE IF ~plans[id].present THEN "notfound" ELSE "ok")
    /\ plans' = IF empty \/ ~plans[id].present THEN plans
                ELSE [plans EXCEPT ![id] = applyUpdates(plans[id], u)]
    /\ UNCHANGED <<pc, txw, todo, hit>>
    /\ PlanFrame

StatusInputs == validStatuses \cup {"deleted"}

\* Plan.changeStatus: the value is checked against validStatuses before the
\* UPDATE is issued.
changeStatus(p, id, newStatus) ==
    LET bad == newStatus \notin validStatuses IN
    /\ bad \/ ~Locked(id, p)
    /\ StartCall(p, 0, [NoArgs EXCEPT !.op = "changeStatus"],
                 IF bad THEN "invalid"
                 ELSE IF ~plans[id].present THEN "notfound" ELSE "ok")
    /\ plans' = IF bad \/ ~plans[id].present THEN plans
                ELSE [plans EXCEPT ![id].status = newStatus]
    /\ UNCHANGED <<pc, txw, todo, hit>>
    /\ PlanFrame

\* ------------------------------------------------------------ transactions
\* An UPDATE of a transaction is in progress.
InStatement(p) == pc[p] \in {"sf_clear", "sf_set", "ro_stmt"}

InTxn(p) ==
    pc[p] \in {"sf_begin", "sf_clear", "sf_set", "ro_next", "ro_stmt",
               "commit"}

\* The new version of a row that the statement in progress writes.
newVersion(p, row) ==
    CASE pc[p] = "sf_clear" -> [row EXCEPT !.is_featured = FALSE]
      [] pc[p] = "sf_set" -> [row EXCEPT !.is_featured = args[p].featured]
      [] pc[p] = "ro_stmt" ->
            [row EXCEPT !.display_order = args[p].batch[args[p].i].order]

\* The WHERE clause of the statement in progress, on one row version.
qual(p, id, row) ==
    /\ row.present
    /\ CASE pc[p] = "sf_clear" -> row.is_featured
         [] pc[p] = "sf_set" -> id = args[p].plan_id
         [] pc[p] = "ro_stmt" -> id = args[p].batch[args[p].i].plan_id

\* The rows of p's snapshot that the WHERE clause of statement stmt selects
\* when the statement starts.
targets(p, stmt, key) ==
    {id \in PlanIds :
        /\ View(p)[id].present
        /\ IF stmt = "sf_clear" THEN View(p)[id].is_featured ELSE id = key}

\* A store without transactions: a statement's write is committed at once.
clientQueryAutocommit(p) ==
    /\ InStatement(p)
    /\ \E id \in todo[p] :
         /\ ~Locked(id, p)
         /\ todo' = [todo EXCEPT ![p] = @ \ {id}]
         /\ IF qual(p, id, plans[id])
            THEN /\ plans' = [plans EXCEPT ![id] = newVersion(p, plans[id])]
                 /\ hit' = [hit EXCEPT ![p] = TRUE]
            ELSE UNCHANGED <<plans, hit>>
    /\ UNCHANGED <<txw, pc, args, outcome, solo, conc, pre>>
    /\ PlanFrame

\* client.query runs an UPDATE: the statement takes the next of its target
\* rows that no other transaction holds, re-checks the WHERE clause on the
\* newest version of the row and writes the new version inside the
\* transaction (not visible to others, row locked, until COMMIT).
clientQueryRow(p) ==
    /\ InStatement(p)
    /\ \E id \in todo[p] :
         /\ ~Locked(id, p)
         /\ todo' = [todo EXCEPT ![p] = @ \ {id}]
         /\ IF qual(p, id, View(p)[id])
            THEN /\ txw' = [txw EXCEPT ![p][id] =
                              [w |-> TRUE, row |-> newVersion(p, View(p)[id])]]
                 /\ hit' = [hit EXCEPT ![p] = TRUE]
            ELSE UNCHANGED <<txw, hit>>
    /\ UNCHANGED <<plans, pc, args, outcome, solo, conc, pre>>
    /\ PlanFrame

\* A catch block that ends the transaction but keeps its writes.
rollbackKeepsWrites(p) ==
    /\ plans' = View(p)
    /\ txw' = [txw EXCEPT ![p] = NoWrites]
    /\ pc' = [pc EXCEPT ![p] = "idle"]
    /\ todo' = [todo EXCEPT ![p] = {}]
    /\ hit' = [hit EXCEPT ![p] = FALSE]

\* transaction(): the catch block issues ROLLBACK, which discards every
\* write of the transaction and releases its row locks, and rethrows. (The
\* store has already marked the transaction failed when the error is thrown:
\* no other caller can see a difference between the throw and the ROLLBACK,
\* so they are one step.)
rollback(p) ==
    /\ txw' = [txw EXCEPT ![p] = NoWrites]
    /\ pc' = [pc EXCEPT ![p] = "idle"]
    /\ todo' = [todo EXCEPT ![p] = {}]
    /\ hit' = [hit EXCEPT ![p] = FALSE]
    /\ UNCHANGED plans

\* A statement fails with a store error (a lost connection, a value the
\* column rejects, a deadlock the store breaks): client.query throws and
\* transaction() rolls back.
clientQueryFails(p) ==
    /\ InStatement(p)
    /\ outcome' = [outcome EXCEPT ![p] = "error"]
    /\ rollback(p)
    /\ UNCHANGED <<args, solo, conc, pre>>
    /\ PlanFrame

\* transaction(): COMMIT makes every write of the transaction visible at
\* once and releases its row locks.
commit(p) ==
    /\ pc[p] = "commit"
    /\ plans' = View(p)
    /\ txw' = [txw EXCEPT ![p] = NoWrites]
    /\ pc' = [pc EXCEPT ![p] = "idle"]
    /\ outcome' = [outcome EXCEPT ![p] = "ok"]
    /\ hit' = [hit EXCEPT ![p] = FALSE]
    /\ UNCHANGED <<args, todo, solo, conc, pre>>
    /\ PlanFrame

\* Plan.setFeatured is called: transaction() takes a client and sends BEGIN.
setFeaturedBegin(p, id, featured) ==
    /\ StartCall(p, 0,
                 [NoArgs EXCEPT !.op = "setFeatured", !.plan_id = id,
                                !.featured = featured],
                 "pending")
    /\ pc' = [pc EXCEPT ![p] = "sf_begin"]
    /\ UNCHANGED <<plans, txw, todo, hit>>
    /\ PlanFrame

\* A setFeatured whose first statement clears nothing.
setFeaturedNoClear(p) ==
    /\ pc[p] = "sf_begin"
    /\ args[p].featured
    /\ pc' = [pc EXCEPT ![p] = "sf_clear"]
    /\ todo' = [todo EXCEPT ![p] = {}]
    /\ UNCHANGED <<plans, args, txw, hit, outcome, solo, conc, pre>>
    /\ PlanFrame

\* if (featured): UPDATE plans SET is_featured = false WHERE is_featured = true
setFeaturedClear(p) ==
    /\ pc[p] = "sf_begin"
    /\ args[p].featured
    /\ pc' = [pc EXCEPT ![p] = "sf_clear"]
    /\ todo' = [todo EXCEPT ![p] = targets(p, "sf_clear", 0)]
    /\ UNCHANGED <<plans, args, txw, hit, outcome, solo, conc, pre>>
    /\ PlanFrame

\* UPDATE plans SET is_featured = $1 ... WHERE plan_id = $2 RETURNING *
setFeaturedSet(p) ==
    /\ \/ pc[p] = "sf_begin" /\ ~args[p].featured
       \/ pc[p] = "sf_clear" /\ todo[p] = {}
    /\ pc' = [pc EXCEPT ![p] = "sf_set"]
    /\ todo' = [todo EXCEPT ![p] = targets(p, "sf_set", args[p].plan_id)]
    /\ hit' = [hit EXCEPT ![p] = FALSE]
    /\ UNCHANGED <<plans, args, txw, outcome, solo, conc, pre>>
    /\ PlanFrame

\* if (result.rows.length === 0) throw new Error("Plan no encontrado");
\* (transaction() rolls back); otherwise the callback returns and
\* transaction() sends COMMIT.
setFeaturedResult(p) ==
    /\ pc[p] = "sf_set"
    /\ todo[p] = {}
    /\ IF hit[p]
       THEN /\ pc' = [pc EXCEPT ![p] = "commit"]
            /\ UNCHANGED <<plans, txw, todo, hit, outcome>>
       ELSE /\ outcome' = [outcome EXCEPT ![p] = "notfound"]
            /\ rollback(p)
    /\ UNCHANGED <<args, solo, conc, pre>>
    /\ PlanFrame

\* The order arrays a caller of Plan.reorder may send.
ReorderItems == [plan_id : PlanIds, order : Orders]

Batches(items) == UNION {[1..n -> items] : n \in 0..MaxBatch}

\* Plan.reorder is called: transaction() takes a client and sends BEGIN.
reorderBegin(p, orderArray) ==
    /\ StartCall(p, Len(orderArray),
                 [NoArgs EXCEPT !.op = "reorder", !.batch = orderArray,
                                !.i = 1],
                 "pending")
    /\ pc' = [pc EXCEPT ![p] = IF orderArray = <<>> THEN "commit" ELSE "ro_next"]
    /\ UNCHANGED <<plans, txw, todo, hit>>
    /\ PlanFrame

\* for (const item of orderArray):
\*   UPDATE plans SET display_order = $1 WHERE plan_id = $2
reorderQuery(p) ==
    /\ pc[p] = "ro_next"
    /\ pc' = [pc EXCEPT ![p] = "ro_stmt"]
    /\ todo' = [todo EXCEPT ![p] =
                  targets(p, "ro_stmt", args[p].batch[args[p].i].plan_id)]
    /\ hit' = [hit EXCEPT ![p] = FALSE]
    /\ UNCHANGED <<plans, args, txw, outcome, solo, conc, pre>>
    /\ PlanFrame

\* The statement of item i returned: the loop goes on; after the last item
\* the callback returns and transaction() sends COMMIT.
reorderNext(p) ==
    /\ pc[p] = "ro_stmt"
    /\ todo[p] = {}
    /\ args' = [args EXCEPT ![p].i = @ + 1]
    /\ pc' = [pc EXCEPT ![p] =
                IF args[p].i = Len(args[p].batch) THEN "commit" ELSE "ro_next"]
    /\ UNCHANGED <<plans, txw, todo, hit, outcome, solo, conc, pre>>
    /\ PlanFrame

\* The legacy records a caller of Plan.importFromJSON may send.
ImportItems == [plan_id : PlanIds, destacado : BOOLEAN]

\* Plan.importFromJSON is called; each record is written by statements of
\* its own (no transaction).
importFromJSON(p, plansArray) ==
    /\ StartCall(p, Len(plansArray),
                 [NoArgs EXCEPT !.op = "importFromJSON", !.batch = plansArray,
                                !.i = 1],
                 IF plansArray = <<>> THEN "ok" ELSE "pending")
    /\ pc' = [pc EXCEPT ![p] = IF plansArray = <<>> THEN "idle" ELSE "imp_create"]
    /\ UNCHANGED <<plans, txw, todo, hit>>
    /\ PlanFrame

\* The loop of importFromJSON goes on to record i + 1, or returns.
importAdvance(p) ==
    /\ args' = [args EXCEPT ![p].i = @ + 1]
    /\ IF args[p].i = Len(args[p].batch)
       THEN /\ pc' = [pc EXCEPT ![p] = "idle"]
            /\ outcome' = [outcome EXCEPT ![p] = "ok"]
       ELSE /\ pc' = [pc EXCEPT ![p] = "imp_create"]
            /\ UNCHANGED outcome

\* this.create({... is_featured: plan.destacado || false, display_order: i,
\* status: "active"}) for record i (i counts from 0 in the code); a
\* duplicate key sends the loop to the update of the catch block.
importCreate(p) ==
    LET item == args[p].batch[args[p].i] IN
    /\ pc[p] = "imp_create"
    /\ IF plans[item.plan_id].present
       THEN /\ pc' = [pc EXCEPT ![p] = "imp_update"]
            /\ UNCHANGED <<plans, args, outcome>>
       ELSE /\ plans' = [plans EXCEPT ![item.plan_id] =
                           [present |-> TRUE, is_featured |-> item.destacado,
                            display_order |-> args[p].i - 1,
                            status |-> "active"]]
            /\ importAdvance(p)
    /\ UNCHANGED <<txw, todo, hit, solo, conc, pre>>
    /\ PlanFrame

\* this.update(plan.id, {... is_featured: plan.destacado || false,
\* display_order: i}) of the catch block.
importUpdate(p) ==
    LET item == args[p].batch[args[p].i] IN
    /\ pc[p] = "imp_update"
    /\ ~Locked(item.plan_id, p)
    /\ plans' = [plans EXCEPT ![item.plan_id] =
                   applyUpdates(@, [has_f |-> TRUE, f |-> item.destacado,
                                    has_o |-> TRUE, o |-> args[p].i - 1,
                                    has_s |-> FALSE, s |-> "active"])]
    /\ importAdvance(p)
    /\ UNCHANGED <<txw, todo, hit, solo, conc, pre>>
    /\ PlanFrame

\* A statement of importFromJSON fails with an error that is no duplicate
\* key: the error leaves the loop and the call.
importFails(p) ==
    /\ pc[p] \in {"imp_create", "imp_update"}
    /\ pc' = [pc EXCEPT ![p] = "idle"]
    /\ outcome' = [outcome EXCEPT ![p] = "error"]
    /\ UNCHANGED <<plans, args, txw, todo, hit, solo, conc, pre>>
    /\ PlanFrame

NextPlans ==
    \E p \in Procs :
        \/ \E id \in PlanIds, f \in BOOLEAN, o \in Orders,
              s \in validStatuses : create(p, id, f, o, s)
        \/ \E id \in PlanIds, u \in UpdateInputs : update(p, id, u)
        \/ \E id \in PlanIds, s \in StatusInputs : changeStatus(p, id, s)
        \/ \E id \in PlanIds, f \in BOOLEAN : setFeaturedBegin(p, id, f)
        \/ setFeaturedClear(p)
        \/ setFeaturedSet(p)
        \/ setFeaturedResult(p)
        \/ \E b \in Batches(ReorderItems) : reorderBegin(p, b)
        \/ reorderQuery(p)
        \/ reorderNext(p)
        \/ clientQueryRow(p)
        \/ clientQueryFails(p)
        \/ commit(p)
        \/ \E b \in Batches(ImportItems) : importFromJSON(p, b)
        \/ importCreate(p)
        \/ importUpdate(p)
        \/ importFails(p)

\* ---------------------------------------------------------- content table
\* A path or a key is a string, kept as the sequence of its characters.
\* A JSON value is a string ("s") or an object ("o") that maps keys to JSON
\* values.
NoMap == <<>>

Str(x) == [t |-> "s", s |-> x, m |-> NoMap]

Obj(f) == [t |-> "o", s |-> "", m |-> f]

\* What a read finds where the document holds nothing.
Missing == [t |-> "missing", s |-> "", m |-> NoMap]

Keys == {<<"a">>, <<"b">>}

Maps(vals) == UNION {[d -> vals] : d \in SUBSET Keys}

\* The documents a caller of Content.upsert sends as content_data: objects
\* of strings and, under the key "a", of nested objects of strings.
Docs ==
    {Obj(f) : f \in {g \in Maps({Str("old")} \cup
                                 {Obj(h) : h \in Maps({Str("old")})}) :
                        <<"b">> \in DOMAIN g => g[<<"b">>] = Str("old")}}

\* The value of a request body that has no "value": JSON.stringify(undefined)
\* is undefined, which the driver sends to the store as NULL.
Undefined == [t |-> "undefined", s |-> "", m |-> NoMap]

\* The NULL of the store (no JSON document at all).
Null == [t |-> "null", s |-> "", m |-> NoMap]

\* The JSON document null, which is what JSON.stringify makes of the null
\* that the driver returns for a NULL column.
JsonNull == [t |-> "jsonnull", s |-> "", m |-> NoMap]

\* JSON.stringify(value) as a parameter of a statement.
stringify(value) ==
    IF value = Undefined THEN Null
    ELSE IF value = Null THEN JsonNull ELSE value

\* The values a caller of Content.updatePartial sends.
Values == {Str("v1"), Str("v2"), Undefined}

SectionNames == {"Inicio", "Home"}

contentStatuses == {"draft", "published", "archived"}

\* The row of the section; present is FALSE before the first upsert.
NoSection ==
    [present |-> FALSE, section_name |-> "", status |-> "published",
     content_data |-> Obj(NoMap)]

\* The dotted paths a caller of Content.updatePartial sends.
PathInputs ==
    {<<"a">>, <<"b">>, <<"a", ".", "b">>, <<"a", ".">>}

\* String.prototype.split(sep): the pieces of str between the separators.
RECURSIVE split(_, _)
split(str, sep) ==
    IF str = <<>> THEN << <<>> >>
    ELSE LET rest == split(Tail(str), sep) IN
         IF Head(str) = sep THEN << <<>> >> \o rest
         ELSE << <<Head(str)>> \o Head(rest) >> \o Tail(rest)

\* Array.prototype.join(sep)
RECURSIVE join(_, _)
join(parts, sep) ==
    IF Len(parts) = 1 THEN Head(parts)
    ELSE Head(parts) \o <<sep>> \o join(Tail(parts), sep)

\* const jsonPath = `{${path.split(".").join(",")}}`;
jsonPath(path) == <<"{">> \o join(split(path, "."), ",") \o <<"}">>

\* The store reads the parameter $1 as a text[] literal: the elements between
\* the braces, separated by commas; an empty element is a malformed literal.
arrayIn(lit) ==
    LET inner == SubSeq(lit, 2, Len(lit) - 1)
        elems == split(inner, ",")
    IN IF inner = <<>> THEN [ok |-> TRUE, elems |-> <<>>]
       ELSE IF \E k \in 1..Len(elems) : elems[k] = <<>>
            THEN [ok |-> FALSE, elems |-> <<>>]
            ELSE [ok |-> TRUE, elems |-> elems]

\* f with key k mapped to v (added when f has no key k).
withKey(f, k, v) ==
    [x \in DOMAIN f \cup {k} |-> IF x = k THEN v ELSE f[x]]

\* jsonb_set(target, path, new_value, true): the value at the last step of
\* the path is replaced, or added when only that last key is missing; when
\* an earlier step of the path is missing or is no object, the target is
\* returned unchanged. The function is strict: NULL when an argument is NULL.
RECURSIVE jsonb_set(_, _, _)
jsonb_set(target, path, new_value) ==
    IF target = Null \/ new_value = Null THEN Null
    ELSE IF path = <<>> \/ target.t # "o" THEN target
    ELSE IF Len(path) = 1
         THEN Obj(withKey(target.m, Head(path), new_value))
         ELSE IF Head(path) \in DOMAIN target.m
              THEN Obj(withKey(target.m, Head(path),
                               jsonb_set(target.m[Head(path)], Tail(path),
                                         new_value)))
              ELSE target

\* What a reader of the document finds at a dotted path (data.a.b).
RECURSIVE valueAt(_, _)
valueAt(doc, keys) ==
    IF keys = <<>> THEN doc
    ELSE IF doc.t = "o" /\ Head(keys) \in DOMAIN doc.m
         THEN valueAt(doc.m[Head(keys)], Tail(keys))
         ELSE Missing

\* content: the row of one section_key (present once upserted) with its
\* section_name, status and content_data; cpc, cargs, coutcome: the calls of
\* Content in progress and how they ended. History: cconc marks the calls
\* that overlapped another call, cpre keeps the row as it was when a call of
\* updatePartial started with no other call in progress.
NoContentArgs == [op |-> "none", path |-> <<>>, value |-> Missing]

\* What a step of the content repository leaves alone.
ContentFrame ==
    UNCHANGED <<planVars, authVars, entityVars, pagingVars, served, poolVars,
                cread,
                registerVars, pubres>>

\* A call of Content starts in q, the first free of the slots for calls in
\* progress; the record of a finished call is dropped when a later call
\* starts.
StartContentCall(q, a, o) ==
    /\ cpc[q] = "idle"
    /\ \A p \in Procs : p < q => cpc[p] # "idle"
    /\ cargs' = [p \in Procs |->
                   IF p = q THEN a
                   ELSE IF cpc[p] = "idle" THEN NoContentArgs ELSE cargs[p]]
    /\ coutcome' = [p \in Procs |->
                      IF p = q THEN o
                      ELSE IF cpc[p] = "idle" THEN "none" ELSE coutcome[p]]
    /\ cconc' = [p \in Procs |->
                   IF p = q THEN \E r \in Procs \ {q} : cpc[r] # "idle"
                   ELSE cpc[p] # "idle"]
    /\ cpre' = [p \in Procs |->
                  IF /\ p = q
                     /\ a.op = "updatePartial"
                     /\ \A r \in Procs \ {q} : cpc[r] = "idle"
                  THEN content ELSE NoSection]

\* Content.upsert: one autocommitted INSERT ... ON CONFLICT (section_key) DO
\* UPDATE that stores section_name, the whole content_data and status.
upsert(p, section_name, content_data, status) ==
    /\ StartContentCall(p, [NoContentArgs EXCEPT !.op = "upsert"], "ok")
    /\ content' = [present |-> TRUE, section_name |-> section_name,
                   status |-> status, content_data |-> content_data]
    /\ UNCHANGED cpc
    /\ ContentFrame

\* UPDATE content SET status = $status, updated_at = CURRENT_TIMESTAMP WHERE
\* section_key = $1: the row with the status, or no row changed.
setContentStatus(status) ==
    IF content.present THEN [content EXCEPT !.status = status] ELSE content

\* Content.archive: the UPDATE, autocommitted, has no RETURNING; its result
\* is not looked at and the call returns true.
archive(p) ==
    /\ StartContentCall(p, [NoContentArgs EXCEPT !.op = "archive"], "ok")
    /\ content' = setContentStatus("archived")
    /\ UNCHANGED cpc
    /\ ContentFrame

\* Content.restore: as archive, with status 'published'.
restore(p) ==
    /\ StartContentCall(p, [NoContentArgs EXCEPT !.op = "restore"], "ok")
    /\ content' = setContentStatus("published")
    /\ UNCHANGED cpc
    /\ ContentFrame

\* Content.updatePartial is called: the path is converted and the UPDATE is
\* sent to the store.
updatePartial(p, path, value) ==
    /\ StartContentCall(p, [op |-> "updatePartial", path |-> path,
                            value |-> value], "pending")
    /\ cpc' = [cpc EXCEPT ![p] = "up_query"]
    /\ UNCHANGED content
    /\ ContentFrame

\* The store runs the UPDATE of updatePartial: one statement, which locks the
\* row and computes jsonb_set on the newest committed content_data; then
\* if (result.rows.length === 0) throw new Error("Sección no encontrada").
\* The repository holds no schema: when the new content_data is NULL the
\* statement stores it if the column accepts NULL and fails if the column
\* is declared NOT NULL (notNull).
updatePartialQuery(p, notNull) ==
    LET parsed == arrayIn(jsonPath(cargs[p].path))
        new_data == jsonb_set(content.content_data, parsed.elems,
                              stringify(cargs[p].value))
    IN
    /\ cpc[p] = "up_query"
    /\ cpc' = [cpc EXCEPT ![p] = "idle"]
    /\ IF ~parsed.ok
       THEN /\ coutcome' = [coutcome EXCEPT ![p] = "error"]
            /\ UNCHANGED content
       ELSE IF ~content.present
            THEN /\ coutcome' = [coutcome EXCEPT ![p] = "notfound"]
                 /\ UNCHANGED content
            ELSE IF new_data = Null /\ notNull
                 THEN /\ coutcome' = [coutcome EXCEPT ![p] = "error"]
                      /\ UNCHANGED content
                 ELSE /\ coutcome' = [coutcome EXCEPT ![p] = "ok"]
                      /\ content' = [content EXCEPT !.content_data = new_data]
    /\ UNCHANGED <<cargs, cconc, cpre>>
    /\ ContentFrame

\* ------------------------------------------------- PUT /content/:sectionKey
\* The body of a PUT: a field that is absent is "" (section_name, status) or
\* Undefined (content_data).
PutDocs == {Obj(NoMap), Obj([k \in {<<"a">>} |-> Str("old")])}

PutBodies ==
    [section_name : SectionNames \cup {""},
     content_data : PutDocs \cup {Undefined},
     status : contentStatuses \cup {""}]

NoRead ==
    [existing |-> NoSection,
     body |-> [section_name |-> "", content_data |-> Undefined,
               status |-> ""]]

\* a || b on the texts and on the documents of a body.
orElseText(a, b) == IF a = "" THEN b ELSE a

orElseValue(a, b) == IF a \in {Undefined, Null} THEN b ELSE a

\* What a step of the PUT handler leaves alone.
PutFrame ==
    UNCHANGED <<planVars, authVars, entityVars, pagingVars, served, poolVars,
                registerVars, pubres>>

\* The handler of PUT /:sectionKey up to its first await:
\* Content.getBySectionKey reads the row WHERE section_key = $1 AND status =
\* 'published'; without such a row the answer is 404.
putContent(p, body) ==
    LET found == content.present /\ content.status = "published" IN
    /\ StartContentCall(p, [NoContentArgs EXCEPT !.op = "put"],
                        IF found THEN "pending" ELSE "notfound")
    /\ cread' = [cread EXCEPT ![p] =
                   IF found THEN [existing |-> content, body |-> body]
                   ELSE NoRead]
    /\ cpc' = [cpc EXCEPT ![p] = IF found THEN "put_upsert" ELSE "idle"]
    /\ UNCHANGED content
    /\ PutFrame

\* The rest of the handler: Content.upsert with each field of the body or,
\* where the body has none, the field of the row that was read.
putUpsert(p) ==
    LET existing == cread[p].existing
        body == cread[p].body
    IN
    /\ cpc[p] = "put_upsert"
    /\ content' =
         [present |-> TRUE,
          section_name |-> orElseText(body.section_name,
                                      existing.section_name),
          status |-> orElseText(body.status, existing.status),
          content_data |-> stringify(orElseValue(body.content_data,
                                                 existing.content_data))]
    /\ cpc' = [cpc EXCEPT ![p] = "idle"]
    /\ coutcome' = [coutcome EXCEPT ![p] = "ok"]
    /\ cread' = [cread EXCEPT ![p] = NoRead]
    /\ UNCHANGED <<cargs, cconc, cpre>>
    /\ PutFrame

\* The editors of one published section: partial updates and PUTs.
PutPaths == {<<"a">>, <<"b">>}

NextPut ==
    \E p \in Procs :
        \/ \E n \in SectionNames, d \in PutDocs :
              upsert(p, n, d, "published")
        \/ \E path \in PutPaths : updatePartial(p, path, Str("v1"))
        \/ \E notNull \in BOOLEAN : updatePartialQuery(p, notNull)
        \/ \E body \in PutBodies : putContent(p, body)
        \/ putUpsert(p)

NextContent ==
    \E p \in Procs :
        \/ \E n \in SectionNames, d \in Docs, st \in contentStatuses :
              upsert(p, n, d, st)
        \/ \E path \in PathInputs, v \in Values : updatePartial(p, path, v)
        \/ \E notNull \in BOOLEAN : updatePartialQuery(p, notNull)
        \/ archive(p)
        \/ restore(p)

\* ------------------------------------------------- users, tokens, requests
UserIds == 1..NumUsers

Reqs == 1..NumReqs

Roles == {"admin", "editor", "user"}

userStatuses == {"active", "inactive", "suspended"}

\* A row of the users table: status is "none" before the user is created
\* and "deleted" after User.deleteHard (ids are never used again).
NoUser == [status |-> "none", role |-> "user"]

Exists(u) == users[u].status \in userStatuses

\* A JSON web token as the verification sees it: good (signed with the
\* server's secret and unexpired), expired, forged (signed with another
\* secret) or garbage (no token at all); sub and role are the payload.
\* History: revoked marks a token issued before its user's status went from
\* active to inactive or suspended.
NoToken == [kind |-> "none", sub |-> 0, role |-> "user", revoked |-> FALSE]

Garbage == [NoToken EXCEPT !.kind = "garbage"]

\* The tokens a client can send: the issued ones, while they last and after
\* they expired, the ones it forges, and garbage.
TokenInputs ==
    {[kind |-> k, sub |-> t.sub, role |-> t.role, revoked |-> t.revoked] :
        k \in {"good", "expired"}, t \in issued}
    \cup {[NoToken EXCEPT !.kind = "forged", !.sub = u, !.role = "admin"] :
            u \in UserIds}
    \cup {Garbage}

\* The Authorization header is a string, kept as the sequence of its pieces:
\* a scheme word, a space, a token.
Word(x) == [text |-> x, tok |-> NoToken]

Jwt(t) == [text |-> "jwt", tok |-> t]

Space == Word(" ")

\* The headers a client can send; the empty one is a request without the
\* header.
HeaderInputs ==
    {<<>>, <<Word("Bearer")>>, <<Jwt(Garbage)>>,
     <<Word("Bearer"), Space, Space, Jwt(Garbage)>>}
    \cup {<<Word(scheme), Space, Jwt(t)>> :
            scheme \in {"Bearer", "Basic"}, t \in TokenInputs}

\* const token = authHeader && authHeader.split(" ")[1]; the empty sequence
\* stands for every falsy result (undefined, "").
tokenOf(authHeader) ==
    IF authHeader = <<>> \/ Len(split(authHeader, Space)) < 2 THEN <<>>
    ELSE split(authHeader, Space)[2]

\* The token that a word of the header spells.
decode(word) ==
    IF Len(word) = 1 /\ word[1].text = "jwt" THEN word[1].tok ELSE Garbage

\* jwt.verify(token, secret): throws unless the token is well formed, signed
\* with the secret and unexpired.
jwtVerify(word) == decode(word).kind = "good"

Guards == {"none", "requireAdmin", "requireEditor"}

\* A requireAdmin that lets the editors in as requireEditor does.
allowedRolesEditorEverywhere(guard) == {"admin", "editor"}

\* const requireAdmin = requireRole(["admin"]);
\* const requireEditor = requireRole(["admin", "editor"]);
allowedRoles(guard) ==
    IF guard = "requireAdmin" THEN {"admin"} ELSE {"admin", "editor"}

\* The DELETE routes: the middleware in front of the handler and what the
\* handler does to the row, remove (Lead.delete, DELETE FROM images) or
\* status (the delete of Plan, Service, BlogPost and Product, which calls
\* changeStatus, and Content.archive).
DeleteRoutes ==
    {[route |-> "leads", gate |-> "authenticateToken",
      guard |-> "requireAdmin", effect |-> "remove"],
     [route |-> "upload", gate |-> "authenticateToken",
      guard |-> "requireAdmin", effect |-> "remove"],
     [route |-> "planes", gate |-> "authenticateToken",
      guard |-> "requireEditor", effect |-> "status"],
     [route |-> "servicios", gate |-> "authenticateToken",
      guard |-> "requireEditor", effect |-> "status"],
     [route |-> "blog", gate |-> "authenticateToken",
      guard |-> "requireEditor", effect |-> "status"],
     [route |-> "tienda", gate |-> "authenticateToken",
      guard |-> "requireEditor", effect |-> "status"],
     [route |-> "content", gate |-> "authenticateToken",
      guard |-> "requireEditor", effect |-> "status"]}

\* What User.findById brought: failed when the query threw; found, status
\* and role are the stored row at the time of the query (which the code
\* sees only when the query did not fail).
NoFetch == [failed |-> FALSE, found |-> FALSE, status |-> "none", role |-> "user"]

NoIdentity == [set |-> FALSE, id |-> 0, role |-> "user"]

\* A request: the first middleware of its route (gate), the requireRole that
\* follows it (guard), its header, req.user (user), the status code of the
\* response a middleware sent (code, 0 when none did) and the middleware
\* that sent it (by), the calls of next() by the gate (nexts) and whether
\* the route handler ran.
NoReq ==
    [pc |-> "idle", gate |-> "none", guard |-> "none", header |-> <<>>,
     fetched |-> NoFetch, user |-> NoIdentity, code |-> 0, by |-> "none",
     nexts |-> 0, ran |-> FALSE]

\* What a step of the users table or of a request leaves alone.
AuthFrame == UNCHANGED <<planVars, contentVars, entityVars, pagingVars, served,
      poolVars,
                registerVars, pubres>>

\* return res.status(code).json(...): the request ends in middleware by.
respond(rq, code, by) == [rq EXCEPT !.pc = "done", !.code = code, !.by = by]

\* The route handler runs.
handler(rq) == [rq EXCEPT !.pc = "done", !.ran = TRUE]

\* A requireRole that trusts the role written in the token.
requireRoleTrustsToken(roles, rq) ==
    IF ~rq.user.set THEN respond(rq, 401, "requireRole")
    ELSE IF decode(tokenOf(rq.header)).role \notin roles
         THEN respond(rq, 403, "requireRole")
         ELSE handler(rq)

\* requireRole(roles): 401 without req.user, 403 when req.user.role is not
\* in roles, otherwise next().
requireRole(roles, rq) ==
    IF ~rq.user.set THEN respond(rq, 401, "requireRole")
    ELSE IF rq.user.role \notin roles
         THEN respond(rq, 403, "requireRole")
         ELSE handler(rq)

\* next() called by the gate: the requireRole of the route runs, if it has
\* one, and then the handler.
next(rq) ==
    LET called == [rq EXCEPT !.nexts = @ + 1] IN
    IF rq.guard = "none" THEN handler(called)
    ELSE requireRole(allowedRoles(rq.guard), called)

\* req.user = {id: user.id, email: user.email, role: user.role, ...}
identity(rq) ==
    [set |-> TRUE, id |-> decode(tokenOf(rq.header)).sub,
     role |-> rq.fetched.role]

\* authenticateToken up to its await: 401 without a token, 403 when
\* jwt.verify throws, otherwise User.findById(decoded.id) is sent.
authenticateToken(rq) ==
    IF tokenOf(rq.header) = <<>> THEN respond(rq, 401, "authenticateToken")
    ELSE IF ~jwtVerify(tokenOf(rq.header))
         THEN respond(rq, 403, "authenticateToken")
         ELSE [rq EXCEPT !.pc = "findById"]

\* An authenticateToken that does not look at the stored status.
authenticateTokenIgnoresStatus(rq) ==
    IF rq.fetched.failed \/ ~rq.fetched.found
    THEN respond(rq, 403, "authenticateToken")
    ELSE next([rq EXCEPT !.user = identity(rq)])

\* authenticateToken after its await: 403 when the query threw (the catch
\* block), when no user was found and when the user's status is not
\* "active"; otherwise req.user is set from the stored user and next() is
\* called.
authenticateTokenResume(rq) ==
    IF rq.fetched.failed \/ ~rq.fetched.found
       \/ rq.fetched.status # "active"
    THEN respond(rq, 403, "authenticateToken")
    ELSE next([rq EXCEPT !.user = identity(rq)])

\* optionalAuth up to its await: next() without a token and when jwt.verify
\* throws, otherwise User.findById(decoded.id) is sent.
optionalAuth(rq) ==
    IF tokenOf(rq.header) = <<>> \/ ~jwtVerify(tokenOf(rq.header))
    THEN next(rq)
    ELSE [rq EXCEPT !.pc = "findById"]

\* An optionalAuth that takes every user it finds.
optionalAuthIgnoresStatus(rq) ==
    IF ~rq.fetched.failed /\ rq.fetched.found
    THEN next([rq EXCEPT !.user = identity(rq)])
    ELSE next(rq)

\* optionalAuth after its await: req.user is set when the user was found and
\* is active; next() is called in every case.
optionalAuthResume(rq) ==
    IF ~rq.fetched.failed /\ rq.fetched.found /\ rq.fetched.status = "active"
    THEN next([rq EXCEPT !.user = identity(rq)])
    ELSE next(rq)

\* A request arrives at a route whose first middleware is gate, followed by
\* guard; the middleware runs up to its first await.
receive(r, gate, guard) ==
    /\ req[r].pc \in {"idle", "done"}
    /\ \E header \in HeaderInputs :
         LET rq == [NoReq EXCEPT !.gate = gate, !.guard = guard,
                                 !.header = header]
         IN req' = [req EXCEPT ![r] =
                      IF gate = "authenticateToken" THEN authenticateToken(rq)
                      ELSE optionalAuth(rq)]
    /\ UNCHANGED <<users, issued>>
    /\ AuthFrame

\* User.findById: the store runs the SELECT, or the query throws (failed).
findById(r, failed) ==
    LET u == decode(tokenOf(req[r].header)).sub IN
    /\ req[r].pc = "findById"
    /\ req' = [req EXCEPT ![r].pc = "resume",
                          ![r].fetched =
                              [failed |-> failed, found |-> Exists(u),
                               status |-> users[u].status,
                               role |-> users[u].role]]
    /\ UNCHANGED <<users, issued>>
    /\ AuthFrame

\* The await of the middleware returns (or throws) and the middleware goes
\* on; what follows next() runs in the same turn.
resume(r) ==
    /\ req[r].pc = "resume"
    /\ req' = [req EXCEPT ![r] =
                 IF req[r].gate = "authenticateToken"
                 THEN authenticateTokenResume(req[r])
                 ELSE optionalAuthResume(req[r])]
    /\ UNCHANGED <<users, issued>>
    /\ AuthFrame

\* History: the tokens of user u issued so far are marked when the status of
\* u goes from active to inactive or suspended.
markRevoked(u, newStatus) ==
    IF users[u].status = "active" /\ newStatus # "active"
    THEN {[t EXCEPT !.revoked = (t.sub = u) \/ @] : t \in issued}
    ELSE issued

\* User.create: INSERT ... status 'active'.
userCreate(u, role) ==
    /\ users[u].status = "none"
    /\ users' = [users EXCEPT ![u] = [status |-> "active", role |-> role]]
    /\ UNCHANGED <<issued, req>>
    /\ AuthFrame

\* User.changeStatus: UPDATE users SET status = $1 WHERE id = $2, once the
\* value is checked against validStatuses.
userChangeStatus(u, newStatus) ==
    /\ newStatus \in userStatuses
    /\ Exists(u)
    /\ users' = [users EXCEPT ![u].status = newStatus]
    /\ issued' = markRevoked(u, newStatus)
    /\ UNCHANGED req
    /\ AuthFrame

\* User.update with a role.
userUpdateRole(u, role) ==
    /\ Exists(u)
    /\ users' = [users EXCEPT ![u].role = role]
    /\ UNCHANGED <<issued, req>>
    /\ AuthFrame

\* User.deleteHard: DELETE FROM users WHERE id = $1.
userDeleteHard(u) ==
    /\ Exists(u)
    /\ users' = [users EXCEPT ![u] = [NoUser EXCEPT !.status = "deleted"]]
    /\ UNCHANGED <<issued, req>>
    /\ AuthFrame

\* POST /login of an active user: jwt.sign({id, email, role}, secret). At
\* most MaxTokens tokens are issued.
login(u) ==
    /\ users[u].status = "active"
    /\ Cardinality(issued) < MaxTokens
    /\ issued' = issued \cup
                   {[sub |-> u, role |-> users[u].role, revoked |-> FALSE]}
    /\ UNCHANGED <<users, req>>
    /\ AuthFrame

NextAuth ==
    \/ \E r \in Reqs, gate \in {"authenticateToken", "optionalAuth"},
          guard \in Guards : receive(r, gate, guard)
    \/ \E r \in Reqs, failed \in BOOLEAN : findById(r, failed)
    \/ \E r \in Reqs : resume(r)
    \/ \E u \in UserIds, role \in Roles : userCreate(u, role)
    \/ \E u \in UserIds, st \in userStatuses : userChangeStatus(u, st)
    \/ \E u \in UserIds, role \in Roles : userUpdateRole(u, role)
    \/ \E u \in UserIds : userDeleteHard(u)
    \/ \E u \in UserIds : login(u)

\* ------------------------------------------------- entities and their status
\* Service, Plan, Product and BlogPost are addressed by a business key
\* (service_id, plan_id, product_id, episode_id), Lead by its generated id.
Kinds == {"Service", "Plan", "Product", "BlogPost", "Lead"}

\* validStatuses of changeStatus, estadosValidos of Lead.updateEstado.
enumOf(k) ==
    IF k = "Lead" THEN {"nuevo", "contactado", "calificado", "cerrado"}
    ELSE IF k = "BlogPost" THEN {"draft", "published", "archived"}
    ELSE {"active", "inactive"}

\* The default of status in create (Lead.create writes 'nuevo' itself).
defaultStatus(k) ==
    IF k = "Lead" THEN "nuevo" ELSE IF k = "BlogPost" THEN "draft" ELSE "active"

\* The status that delete passes to changeStatus.
deletedStatus(k) == IF k = "BlogPost" THEN "archived" ELSE "inactive"

\* The status of the rows that the default list of the entity selects:
\* "AND status = 'active'" in getAll, the default of status in findAll.
listedStatus(k) == IF k = "BlogPost" THEN "published" ELSE "active"

\* The status values a client can send: the enum and a value outside it.
StatusValues(k) == enumOf(k) \cup {"bogus"}

Titles == {"t1", "t2"}

\* A record: title stands for the fields a client writes freely, updated_at
\* is the time of the store at the last write.
NoEntity ==
    [kind |-> "none", present |-> FALSE, status |-> "none", title |-> "",
     updated_at |-> 0]

\* The table of kind k holds the record.
Stored(k) == ent.present /\ ent.kind = k

\* The calls followed are those on the table of the record and, while no
\* record is stored, those on any of the five tables, all empty.
Followed(k) == ent.present => ent.kind = k

\* The fields a caller of update sends; has_x is FALSE for a field that is
\* missing, undefined or outside allowedFields.
EntityUpdates(k) ==
    {u \in [has_title : BOOLEAN, title : Titles, has_status : BOOLEAN,
            status : StatusValues(k)] :
        /\ (~u.has_title => u.title = "t1")
        /\ (~u.has_status => u.status = "bogus")}

NoCall ==
    [op |-> "none", kind |-> "none", outcome |-> "none", status |-> "none",
     title |-> "", pre |-> NoEntity, batch |-> <<>>, count |-> 0]

\* A call of a repository has ended: its record replaces the one of the call
\* before it.
Ended(op, k, result, status, title) ==
    /\ ecall' = [op |-> op, kind |-> k, outcome |-> result,
                 status |-> status, title |-> title, pre |-> ent,
                 batch |-> <<>>, count |-> 0]
    /\ eprev' = [op |-> ecall.op, kind |-> ecall.kind,
                 outcome |-> ecall.outcome, pre |-> ecall.pre]

\* The store runs a statement that writes: CURRENT_TIMESTAMP moves on.
Write(row) ==
    /\ now < MaxClock
    /\ now' = now + 1
    /\ ent' = [row EXCEPT !.updated_at = now + 1]

\* What a step on the record leaves alone.
EntityFrame == UNCHANGED <<planVars, contentVars, authVars, pagingVars, served,
      poolVars,
                registerVars, pubres>>

\* Service.create, Plan.create, Product.create, BlogPost.create: an INSERT
\* with the status of the input or the default; Lead.create: an INSERT with
\* estado 'nuevo'. The repository holds no schema: a status outside the enum
\* is stored if the column takes any text (stores) and makes the statement
\* fail if the column is constrained to the enum.
entityCreate(k, title, has_status, status, stores) ==
    LET st == IF k = "Lead" THEN "nuevo"
              ELSE IF has_status THEN status ELSE defaultStatus(k)
    IN
    /\ ~ent.present
    /\ IF st \notin enumOf(k) /\ ~stores
       THEN /\ Ended("create", k, "error", st, title)
            /\ UNCHANGED <<ent, now>>
       ELSE /\ Ended("create", k, "ok", st, title)
            /\ Write([kind |-> k, present |-> TRUE, status |-> st,
                      title |-> title, updated_at |-> 0])
    /\ EntityFrame

\* A create with the business key of the record that is stored: the unique
\* key rejects the INSERT.
entityCreateDuplicate(k, title) ==
    /\ Stored(k)
    /\ k # "Lead"
    /\ Ended("create", k, "duplicate", defaultStatus(k), title)
    /\ UNCHANGED <<ent, now>>
    /\ EntityFrame

\* Product.update and BlogPost.update write the SET and WHERE clauses with
\* the number of the parameter in place of the placeholder ("status = 1"
\* where the others write "status = $1"): the statement has no parameter,
\* the call passes values, and the store rejects the query.
updateQueryRejected(k) == k \in {"Product", "BlogPost"}

\* An update that goes on to the statement with no field to set.
emptyUpdateAccepted(u) == FALSE

\* updateFields.length === 0: no key of the input is in allowedFields with a
\* value other than undefined.
emptyUpdate(u) == ~(u.has_title \/ u.has_status)

\* Service.update, Plan.update, Product.update, BlogPost.update, Lead.update:
\* throws when no allowed field is left, otherwise sends one UPDATE that
\* sets the fields as given and updated_at.
entityUpdate(k, u, stores) ==
    LET status == IF u.has_status THEN u.status ELSE "none"
        title == IF u.has_title THEN u.title ELSE ""
    IN
    /\ Followed(k)
    /\ IF emptyUpdate(u)
       THEN /\ Ended("update", k, "invalid", status, title)
            /\ UNCHANGED <<ent, now>>
       ELSE IF updateQueryRejected(k)
            THEN /\ Ended("update", k, "error", status, title)
                 /\ UNCHANGED <<ent, now>>
            ELSE IF ~Stored(k)
                 THEN /\ Ended("update", k, "notfound", status, title)
                      /\ UNCHANGED <<ent, now>>
                 ELSE IF u.has_status /\ u.status \notin enumOf(k) /\ ~stores
                      THEN /\ Ended("update", k, "error", status, title)
                           /\ UNCHANGED <<ent, now>>
                      ELSE /\ Ended("update", k, "ok", status, title)
                           /\ Write([ent EXCEPT
                                       !.title = IF u.has_title THEN u.title
                                                 ELSE @,
                                       !.status = IF u.has_status THEN u.status
                                                  ELSE @])
    /\ EntityFrame

\* A changeStatus that sends the UPDATE without checking the value.
setStatusUnchecked(op, k, newStatus) ==
    IF ~Stored(k)
    THEN /\ Ended(op, k, "notfound", newStatus, "")
         /\ UNCHANGED <<ent, now>>
    ELSE /\ Ended(op, k, "ok", newStatus, "")
         /\ Write([ent EXCEPT !.status = newStatus])

\* changeStatus (Lead.updateEstado): the value is checked against the enum,
\* then UPDATE ... SET status = $1, updated_at = CURRENT_TIMESTAMP.
setStatus(op, k, newStatus) ==
    IF newStatus \notin enumOf(k)
    THEN /\ Ended(op, k, "invalid", newStatus, "")
         /\ UNCHANGED <<ent, now>>
    ELSE IF ~Stored(k)
         THEN /\ Ended(op, k, "notfound", newStatus, "")
              /\ UNCHANGED <<ent, now>>
         ELSE /\ Ended(op, k, "ok", newStatus, "")
              /\ Write([ent EXCEPT !.status = newStatus])

entityChangeStatus(k, newStatus) ==
    /\ Followed(k)
    /\ setStatus("changeStatus", k, newStatus)
    /\ EntityFrame

\* DELETE FROM <table> WHERE <key> = $1 RETURNING *
deleteRow(op, k) ==
    IF ~Stored(k)
    THEN /\ Ended(op, k, "notfound", "none", "")
         /\ UNCHANGED <<ent, now>>
    ELSE /\ Ended(op, k, "ok", "none", "")
         /\ ent' = NoEntity
         /\ UNCHANGED now

\* delete of Service, Plan, Product: this.changeStatus(key, "inactive"); of
\* BlogPost: this.changeStatus(key, "archived"); Lead.delete: a real DELETE.
entityDelete(k) ==
    /\ Followed(k)
    /\ IF k = "Lead" THEN deleteRow("delete", k)
       ELSE setStatus("delete", k, deletedStatus(k))
    /\ EntityFrame

\* deleteHard of Service, Plan, Product, BlogPost.
entityDeleteHard(k) ==
    /\ k # "Lead"
    /\ Followed(k)
    /\ deleteRow("deleteHard", k)
    /\ EntityFrame

\* The records of a legacy file that importFromJSON is given, all with the
\* business key followed: a title, and whether the store rejects the values
\* of the record for a reason other than the key (rejected).
ImportRecords == [title : Titles, rejected : BOOLEAN]

ImportBatches == UNION {[1..n -> ImportRecords] : n \in 1..MaxImport}

\* status: "active" (BlogPost: "published") in the create of importFromJSON.
importStatus(k) == listedStatus(k)

\* One turn of the loop of importFromJSON on the row st.row at time st.time:
\* this.create; when it throws an error whose message includes "duplicate",
\* this.update with the fields of the record, status left out; any error
\* that leaves the try statement ends the loop.
importRecord(k, st, record) ==
    IF record.rejected THEN [st EXCEPT !.failed = TRUE]
    ELSE IF ~st.row.present
         THEN [st EXCEPT !.row = [kind |-> k, present |-> TRUE,
                                  status |-> importStatus(k),
                                  title |-> record.title,
                                  updated_at |-> st.time + 1],
                         !.time = @ + 1, !.count = @ + 1]
         ELSE IF updateQueryRejected(k) THEN [st EXCEPT !.failed = TRUE]
              ELSE [st EXCEPT !.row = [@ EXCEPT !.title = record.title,
                                                !.updated_at = st.time + 1],
                              !.time = @ + 1, !.count = @ + 1]

\* for (let i = 0; i < array.length; i++) { ... }
RECURSIVE importLoop(_, _, _)
importLoop(k, st, batch) ==
    IF batch = <<>> \/ st.failed THEN st
    ELSE importLoop(k, importRecord(k, st, Head(batch)), Tail(batch))

\* Service.importFromJSON, Plan.importFromJSON, Product.importFromJSON,
\* BlogPost.importFromJSON.
entityImportFromJSON(k, batch) ==
    LET end == importLoop(k, [row |-> ent, time |-> now, failed |-> FALSE,
                              count |-> 0], batch)
    IN
    /\ k # "Lead"
    /\ Followed(k)
    /\ now + Len(batch) <= MaxClock
    /\ ecall' = [op |-> "import", kind |-> k,
                 outcome |-> IF end.failed THEN "error" ELSE "ok",
                 status |-> "none", title |-> "", pre |-> ent,
                 batch |-> batch, count |-> end.count]
    /\ eprev' = [op |-> ecall.op, kind |-> ecall.kind,
                 outcome |-> ecall.outcome, pre |-> ecall.pre]
    /\ ent' = end.row
    /\ now' = end.time
    /\ EntityFrame

\* A lookup by business key that selects on the key alone.
lookupFilterNone(k) == TRUE

\* getByServiceId, getByPlanId and getByProductId select on the key "AND
\* status = 'active'"; BlogPost.getByEpisodeId and Lead.findById select on
\* the key alone.
lookupFilter(k) ==
    k \in {"BlogPost", "Lead"} \/ ent.status = listedStatus(k)

\* What the lookup by business key returns: the row, or null.
lookupResult(k) ==
    IF Stored(k) /\ lookupFilter(k) THEN "found" ELSE "null"

entityLookup(k) ==
    /\ Followed(k)
    /\ Ended("lookup", k, lookupResult(k), "none", "")
    /\ UNCHANGED <<ent, now>>
    /\ EntityFrame

\* Product.findAll writes its WHERE, LIMIT and OFFSET with the number of the
\* parameter in place of the placeholder, as Product.update does, and passes
\* three values: the store rejects the query.
listQueryRejected(k) == k = "Product"

\* What the default list returns (Service.getAll, Plan.getAll,
\* Product.findAll, BlogPost.findAll with no option): the rows with the
\* listed status.
listResult(k) ==
    IF listQueryRejected(k) THEN "error"
    ELSE IF Stored(k) /\ ent.status = listedStatus(k) THEN "listed"
         ELSE "empty"

entityList(k) ==
    /\ k # "Lead"
    /\ Followed(k)
    /\ Ended("list", k, listResult(k), "none", "")
    /\ UNCHANGED <<ent, now>>
    /\ EntityFrame

NextEntities ==
    \E k \in Kinds :
        \/ \E title \in Titles, has_status \in BOOLEAN,
              status \in StatusValues(k), stores \in BOOLEAN :
              entityCreate(k, title, has_status, status, stores)
        \/ \E title \in Titles : entityCreateDuplicate(k, title)
        \/ \E u \in EntityUpdates(k), stores \in BOOLEAN :
              entityUpdate(k, u, stores)
        \/ \E newStatus \in StatusValues(k) : entityChangeStatus(k, newStatus)
        \/ entityDelete(k)
        \/ entityDeleteHard(k)
        \/ entityLookup(k)
        \/ entityList(k)
        \/ \E batch \in ImportBatches : entityImportFromJSON(k, batch)

\* ----------------------------------------------------------- paginated lists
\* The lists that take page and limit: Lead.findAll, BlogPost.findAll and
\* Product.findAll, behind GET /api/leads, GET /api/blog and GET /api/tienda.
PagedKinds == {"Lead", "BlogPost", "Product"}

\* A number of the runtime: an integer, NaN or Infinity.
Num(n) == [k |-> "int", n |-> n]
NaN == [k |-> "nan", n |-> 0]
Infinity == [k |-> "inf", n |-> 0]

isDigit(c) == c \in {"0", "1", "2", "3"}

digitOf(c) == IF c = "0" THEN 0 ELSE IF c = "1" THEN 1 ELSE IF c = "2" THEN 2 ELSE 3

\* The longest prefix of the text made of digits.
RECURSIVE leadingDigits(_)
leadingDigits(t) ==
    IF t = <<>> \/ ~isDigit(Head(t)) THEN <<>>
    ELSE <<Head(t)>> \o leadingDigits(Tail(t))

RECURSIVE digitsValue(_)
digitsValue(d) ==
    IF d = <<>> THEN 0
    ELSE 10 * digitsValue(SubSeq(d, 1, Len(d) - 1)) + digitOf(d[Len(d)])

\* parseInt of a text: an optional sign, then the digits up to the first
\* character that is not one; NaN when there is no digit.
parseInt(t) ==
    LET neg == t # <<>> /\ Head(t) = "-"
        d == leadingDigits(IF neg THEN Tail(t) ELSE t)
    IN IF d = <<>> THEN NaN
       ELSE Num(IF neg THEN 0 - digitsValue(d) ELSE digitsValue(d))

\* parseInt of a number: the number printed and parsed again.
parseIntOfNumber(x) == IF x.k = "int" THEN x ELSE NaN

\* The texts a client sends as page or limit.
QueryTexts ==
    {<<>>, <<"0">>, <<"1">>, <<"2">>, <<"3">>, <<"-", "1">>, <<"a">>,
     <<"2", "a">>}

\* A value of req.query: missing, or a text.
QueryValues ==
    {[given |-> FALSE, text |-> <<>>]} \cup
    {[given |-> TRUE, text |-> t] : t \in QueryTexts}

\* page ? parseInt(page) : 1 and limit ? parseInt(limit) : 20 in the routes:
\* undefined and the empty text are falsy.
queryNumber(q, default) ==
    IF q.given /\ q.text # <<>> THEN parseInt(q.text) ELSE Num(default)

\* const offset = (page - 1) * limit
offsetOf(page, limit) ==
    IF page.k = "int" /\ limit.k = "int" THEN Num((page.n - 1) * limit.n)
    ELSE NaN

\* The store takes LIMIT and OFFSET values that are integers of 0 or more;
\* it rejects a negative one, and NaN is no integer.
limitOffsetAccepted(limit, offset) ==
    /\ limit.k = "int" /\ limit.n >= 0
    /\ offset.k = "int" /\ offset.n >= 0

\* The number of rows of SELECT ... LIMIT limit OFFSET offset over total rows.
rowsReturned(total, limit, offset) ==
    IF total - offset <= 0 THEN 0
    ELSE IF limit < total - offset THEN limit ELSE total - offset

\* Math.ceil(total / limit) with total an integer of 0 or more.
ceilOfQuotient(total, limit) ==
    IF limit.k # "int" THEN NaN
    ELSE IF limit.n = 0 THEN (IF total = 0 THEN NaN ELSE Infinity)
    ELSE IF limit.n > 0 THEN Num((total + limit.n - 1) \div limit.n)
    ELSE Num(0 - (total \div (0 - limit.n)))

NoPagination == [page |-> NaN, limit |-> NaN, total |-> 0, pages |-> NaN]

NoList ==
    [kind |-> "none", page |-> Num(1), limit |-> Num(1), offset |-> Num(0),
     outcome |-> "none", rows |-> 0, pagination |-> NoPagination]

\* What a step on the paginated tables leaves alone.
PagingFrame == UNCHANGED <<planVars, contentVars, authVars, entityVars, served,
      poolVars,
                registerVars, pubres>>

\* A row that matches the filters is created.
rowCreated(k) ==
    /\ matching[k] < MaxTotal
    /\ matching' = [matching EXCEPT ![k] = @ + 1]
    /\ UNCHANGED pcall
    /\ PagingFrame

\* A row that matches the filters is deleted, or changed so that it does not
\* match.
rowRemoved(k) ==
    /\ matching[k] > 0
    /\ matching' = [matching EXCEPT ![k] = @ - 1]
    /\ UNCHANGED pcall
    /\ PagingFrame

\* GET / of leads, blog and tienda with the findAll of the model: the page
\* query, the count query and the pagination of the answer; an error of the
\* store is answered 500.
findAll(k, pageQuery, limitQuery) ==
    LET page == queryNumber(pageQuery, 1)
        limit == queryNumber(limitQuery, 20)
        offset == offsetOf(page, limit)
        total == matching[k]
    IN
    /\ pcall' =
         IF listQueryRejected(k) \/ ~limitOffsetAccepted(limit, offset)
         THEN [kind |-> k, page |-> page, limit |-> limit, offset |-> offset,
               outcome |-> "error", rows |-> 0, pagination |-> NoPagination]
         ELSE [kind |-> k, page |-> page, limit |-> limit, offset |-> offset,
               outcome |-> "ok",
               rows |-> rowsReturned(total, limit.n, offset.n),
               pagination |->
                   [page |-> parseIntOfNumber(page),
                    limit |-> parseIntOfNumber(limit),
                    total |-> total,
                    pages |-> ceilOfQuotient(total, limit)]]
    /\ UNCHANGED matching
    /\ PagingFrame

NextPaging ==
    \E k \in PagedKinds :
        \/ rowCreated(k)
        \/ rowRemoved(k)
        \/ \E pageQuery \in QueryValues, limitQuery \in QueryValues :
              findAll(k, pageQuery, limitQuery)

\* ------------------------------------------------------------------ routers
\* A segment of a route path: a literal text or a parameter (":id").
Lit(x) == [param |-> FALSE, text |-> x]

Param(x) == [param |-> TRUE, text |-> x]

\* The GET routes of the routers of leads and upload, in the order of their
\* declaration: routes/leads.js and routes/upload.js, which server.js
\* mounts, the rewrite of the leads router on the Lead model, and the
\* file-based router of upload.
GetRoutes(router) ==
    IF router = "leads"
    THEN << <<>>, <<Param("id")>>, <<Lit("estadisticas")>> >>
    ELSE IF router = "leadsModel"
    THEN << <<>>, <<Lit("estadisticas")>>, <<Lit("search")>>, <<Param("id")>> >>
    ELSE IF router = "upload"
    THEN << <<Lit("list")>>, <<Param("id")>>, <<Lit("stats")>> >>
    ELSE << <<Lit("list")>>, <<Param("filename"), Lit("info")>>,
            <<Lit("stats")>> >>

Routers == {"leads", "leadsModel", "upload", "uploadFiles"}

\* The segments a client puts in the path after the mount point.
PathSegments == {"estadisticas", "search", "stats", "list", "info", "7"}

Paths == UNION {[1..n -> PathSegments] : n \in 0..2}

\* The path matches the pattern of a route: as many segments, and each
\* literal segment equal; a parameter takes any segment.
matches(pattern, path) ==
    /\ Len(pattern) = Len(path)
    /\ \A i \in 1..Len(path) : pattern[i].param \/ pattern[i].text = path[i]

\* The router runs the first route, in the order of declaration, that
\* matches; none of these handlers calls next(). 0: no route matches.
dispatch(router, path) ==
    LET hits == {i \in 1..Len(GetRoutes(router)) :
                   matches(GetRoutes(router)[i], path)}
    IN IF hits = {} THEN 0
       ELSE CHOOSE i \in hits : \A j \in hits : i <= j

NoServed == [router |-> "none", path |-> <<>>, handler |-> 0]

\* GET <mount point>/<path> arrives at the router.
routeGet(router, path) ==
    /\ served' = [router |-> router, path |-> path,
                  handler |-> dispatch(router, path)]
    /\ UNCHANGED <<planVars, contentVars, authVars, entityVars, pagingVars,
                   poolVars, registerVars, pubres>>

NextRouting == \E router \in Routers, path \in Paths : routeGet(router, path)

\* ------------------------------------------------------- the connection pool
\* transaction(callback) of config/database.js, step by step. The statements
\* of the callback are one step here: it returns or it throws.
TxSteps == {"begin", "callback", "commit"}

\* What a step on the pool leaves alone.
PoolFrame ==
    UNCHANGED <<planVars, contentVars, authVars, entityVars, pagingVars,
                served,
                registerVars, pubres>>

\* transaction(callback) is called: await pool.connect() waits for a client.
transaction(p) ==
    /\ tpc[p] = "idle"
    /\ tpc' = [tpc EXCEPT ![p] = "connect"]
    /\ tend' = [tend EXCEPT ![p] = "pending"]
    /\ tfailed' = [tfailed EXCEPT ![p] = "none"]
    /\ treleases' = [treleases EXCEPT ![p] = 0]
    /\ UNCHANGED inUse
    /\ PoolFrame

\* pool.connect() hands out a client while fewer than max are checked out.
poolConnect(p) ==
    /\ tpc[p] = "connect"
    /\ inUse < PoolMax
    /\ inUse' = inUse + 1
    /\ tpc' = [tpc EXCEPT ![p] = "begin"]
    /\ UNCHANGED <<tend, tfailed, treleases>>
    /\ PoolFrame

\* connectionTimeoutMillis: with every client checked out, pool.connect()
\* rejects; the error leaves transaction() before the try statement.
poolConnectTimeout(p) ==
    /\ tpc[p] = "connect"
    /\ inUse = PoolMax
    /\ tpc' = [tpc EXCEPT ![p] = "idle"]
    /\ tend' = [tend EXCEPT ![p] = "error"]
    /\ tfailed' = [tfailed EXCEPT ![p] = "connect"]
    /\ UNCHANGED <<inUse, treleases>>
    /\ PoolFrame

\* try { BEGIN; callback(client); COMMIT; return result }: each step returns
\* and the next one follows, or it throws and the catch block is entered.
transactionStep(p, fails) ==
    /\ tpc[p] \in TxSteps
    /\ IF fails
       THEN /\ tpc' = [tpc EXCEPT ![p] = "rollback"]
            /\ tfailed' = [tfailed EXCEPT ![p] = tpc[p]]
            /\ UNCHANGED tend
       ELSE /\ tpc' = [tpc EXCEPT ![p] =
                         IF tpc[p] = "begin" THEN "callback"
                         ELSE IF tpc[p] = "callback" THEN "commit"
                              ELSE "finally"]
            /\ tend' = [tend EXCEPT ![p] =
                          IF tpc[p] = "commit" THEN "ok" ELSE @]
            /\ UNCHANGED tfailed
    /\ UNCHANGED <<inUse, treleases>>
    /\ PoolFrame

\* A catch block whose failing ROLLBACK leaves the function at once.
transactionRollbackEscapes(p, fails) ==
    /\ tpc[p] = "rollback"
    /\ tpc' = [tpc EXCEPT ![p] = IF fails THEN "idle" ELSE "finally"]
    /\ tend' = [tend EXCEPT ![p] = "error"]
    /\ tfailed' = [tfailed EXCEPT ![p] = IF fails THEN "rollback" ELSE @]
    /\ UNCHANGED <<inUse, treleases>>
    /\ PoolFrame

\* catch (error) { await client.query("ROLLBACK"); throw error; }: the error
\* thrown is the one caught, or the one of a ROLLBACK that fails; either way
\* the finally block follows.
transactionRollback(p, fails) ==
    /\ tpc[p] = "rollback"
    /\ tpc' = [tpc EXCEPT ![p] = "finally"]
    /\ tend' = [tend EXCEPT ![p] = "error"]
    /\ tfailed' = [tfailed EXCEPT ![p] = IF fails THEN "rollback" ELSE @]
    /\ UNCHANGED <<inUse, treleases>>
    /\ PoolFrame

\* finally { client.release(); }
clientRelease(p) ==
    /\ tpc[p] = "finally"
    /\ inUse' = inUse - 1
    /\ treleases' = [treleases EXCEPT ![p] = @ + 1]
    /\ tpc' = [tpc EXCEPT ![p] = "idle"]
    /\ UNCHANGED <<tend, tfailed>>
    /\ PoolFrame

NextPool ==
    \E p \in Procs :
        \/ transaction(p)
        \/ poolConnect(p)
        \/ poolConnectTimeout(p)
        \/ \E fails \in BOOLEAN : transactionStep(p, fails)
        \/ \E fails \in BOOLEAN : transactionRollback(p, fails)
        \/ clientRelease(p)

\* -------------------------------------------------------- POST /auth/register
Emails == {"ana@boost.co", "leo@boost.co"}

\* A request to register: where its handler is (pc), who sent it and for
\* which email, and the status code it answered (0 while it has none).
\* History: fresh is TRUE when no row had the email as the handler started,
\* overlapped when another request for the email was in progress during it.
NoRegister ==
    [pc |-> "idle", role |-> "user", email |-> "", answer |-> 0,
     fresh |-> FALSE, overlapped |-> FALSE]

\* What a step of the register handler leaves alone.
RegisterFrame ==
    UNCHANGED <<planVars, contentVars, authVars, entityVars, pagingVars,
                served, poolVars, pubres>>

\* The handler up to its first await: 403 unless req.user.role is admin, 400
\* without an email (the password and the name of the body are given and
\* well formed), then User.findByEmail is sent.
register(p, role, email) ==
    LET others == {q \in Procs \ {p} :
                     rcall[q].pc \in {"find", "create"}
                     /\ rcall[q].email = email}
        goes == role = "admin" /\ email # ""
    IN
    /\ rcall[p].pc = "idle"
    /\ rcall' =
         [q \in Procs |->
            IF q = p
            THEN [pc |-> IF goes THEN "find" ELSE "idle",
                  role |-> role, email |-> email,
                  answer |-> IF role # "admin" THEN 403
                             ELSE IF email = "" THEN 400 ELSE 0,
                  fresh |-> goes /\ emailRows[email] = 0,
                  overlapped |-> goes /\ others # {}]
            ELSE IF goes /\ q \in others
                 THEN [rcall[q] EXCEPT !.overlapped = TRUE]
                 ELSE rcall[q]]
    /\ UNCHANGED emailRows
    /\ RegisterFrame

\* SELECT ... FROM users WHERE email = $1 returns; with a row the answer is
\* 409, without one User.create is called.
registerFindByEmail(p) ==
    /\ rcall[p].pc = "find"
    /\ rcall' = [rcall EXCEPT ![p] =
                   IF emailRows[rcall[p].email] > 0
                   THEN [@ EXCEPT !.pc = "idle", !.answer = 409]
                   ELSE [@ EXCEPT !.pc = "create"]]
    /\ UNCHANGED emailRows
    /\ RegisterFrame

\* The INSERT of User.create runs. The repository holds no schema: when a
\* row with the email is there already, the statement fails if users.email
\* carries a unique key (unique) and adds a second row if it does not. A
\* failing statement is caught by the handler, which answers 500.
registerCreate(p, unique) ==
    LET email == rcall[p].email
        fails == unique /\ emailRows[email] > 0
    IN
    /\ rcall[p].pc = "create"
    /\ emailRows' = IF fails THEN emailRows
                    ELSE [emailRows EXCEPT ![email] = @ + 1]
    /\ rcall' = [rcall EXCEPT ![p] =
                   [@ EXCEPT !.pc = "idle",
                             !.answer = IF fails THEN 500 ELSE 201]]
    /\ RegisterFrame

NextRegister ==
    \E p \in Procs :
        \/ \E role \in {"admin", "editor"}, email \in Emails \cup {""} :
              register(p, role, email)
        \/ registerFindByEmail(p)
        \/ \E unique \in BOOLEAN : registerCreate(p, unique)

\* ------------------------------------------------ reads without credentials
\* GET /api/content, /api/blog, /api/planes, /api/servicios and their
\* lookups by key carry no authenticateToken.
PublicKinds == {"Content", "BlogPost", "Plan", "Service"}

publishedStatus(k) == IF k = "Content" THEN "published" ELSE listedStatus(k)

\* The values of req.query.status and req.query.includeInactive; "" is a
\* parameter that was not sent.
StatusQueries == {"", "active", "inactive", "draft", "published", "archived"}

IncludeInactiveQueries == {"", "true", "false"}

NoResponse ==
    [op |-> "none", kind |-> "none", authed |-> FALSE, status |-> "",
     includeInactive |-> "", rows |-> {}]

\* The statuses of the rows of the table of k.
statusesStored(k) ==
    IF k = "Content"
    THEN IF content.present THEN {content.status} ELSE {}
    ELSE IF Stored(k) THEN {ent.status} ELSE {}

\* The WHERE of the list as the handler and the repository build it from the
\* query: the status a row must have, or "" when the list selects on none.
\* Content: filters.status is 'published' without req.user, else the status
\* of the query if any. BlogPost: status || "published". Plan, Service: the
\* status of the query if any, else 'active' unless includeInactive ===
\* "true".
listWhere(k, authed, status, includeInactive) ==
    IF k = "Content"
    THEN IF ~authed THEN "published" ELSE status
    ELSE IF k = "BlogPost"
         THEN IF status # "" THEN status ELSE "published"
         ELSE IF status # "" THEN status
              ELSE IF includeInactive # "true" THEN "active" ELSE ""

\* What a step of a public read leaves alone.
PublicFrame ==
    UNCHANGED <<planVars, contentVars, authVars, entityVars, pagingVars,
                served, poolVars, registerVars>>

\* GET / of the four routers: the rows that the WHERE selects are sent.
\* authed tells whether optionalAuth set req.user; the other three routers
\* have no middleware on the list.
publicList(k, authed, status, includeInactive) ==
    LET where == listWhere(k, authed, status, includeInactive) IN
    /\ Followed(k) \/ k = "Content"
    /\ authed => k = "Content"
    /\ pubres' = [op |-> "list", kind |-> k, authed |-> authed,
                  status |-> status, includeInactive |-> includeInactive,
                  rows |-> {st \in statusesStored(k) :
                              where = "" \/ st = where}]
    /\ PublicFrame

\* GET /:sectionKey, /:episodeId, /:planId, /:serviceId: the row of the key
\* as the repository selects it (lookupFilter; Content.getBySectionKey adds
\* AND status = 'published').
publicLookup(k) ==
    /\ Followed(k) \/ k = "Content"
    /\ pubres' = [NoResponse EXCEPT
                    !.op = "lookup", !.kind = k,
                    !.rows = {st \in statusesStored(k) :
                                IF k = "Content" THEN st = "published"
                                ELSE lookupFilter(k)}]
    /\ PublicFrame

\* The rows are written by the editors' calls; the reads follow.
NextPublic ==
    \/ \E k \in PublicKinds \ {"Content"} :
          \E status \in enumOf(k) : entityCreate(k, "t1", TRUE, status, TRUE)
    \/ \E k \in PublicKinds \ {"Content"} :
          \E newStatus \in enumOf(k) : entityChangeStatus(k, newStatus)
    \/ \E p \in Procs, st \in contentStatuses :
          upsert(p, "Inicio", Obj(NoMap), st)
    \/ \E k \in PublicKinds, authed \in BOOLEAN, status \in StatusQueries,
          includeInactive \in IncludeInactiveQueries :
          publicList(k, authed, status, includeInactive)
    \/ \E k \in PublicKinds : publicLookup(k)

\* The state after the server started on an empty database: no rows, no
\* call in progress, no token issued, no request in the middleware.
Init ==
    /\ plans = EmptyTable
    /\ pc = [p \in Procs |-> "idle"]
    /\ args = [p \in Procs |-> NoArgs]
    /\ txw = [p \in Procs |-> NoWrites]
    /\ todo = [p \in Procs |-> {}]
    /\ hit = [p \in Procs |-> FALSE]
    /\ outcome = [p \in Procs |-> "none"]
    /\ solo = [p \in Procs |-> FALSE]
    /\ conc = [p \in Procs |-> FALSE]
    /\ pre = [p \in Procs |-> EmptyTable]
    /\ content = NoSection
    /\ cpc = [p \in Procs |-> "idle"]
    /\ cargs = [p \in Procs |-> NoContentArgs]
    /\ coutcome = [p \in Procs |-> "none"]
    /\ cconc = [p \in Procs |-> FALSE]
    /\ cpre = [p \in Procs |-> NoSection]
    /\ cread = [p \in Procs |-> NoRead]
    /\ users = [u \in UserIds |-> NoUser]
    /\ issued = {}
    /\ req = [r \in Reqs |-> NoReq]
    /\ ent = NoEntity
    /\ now = 0
    /\ ecall = NoCall
    /\ eprev = [op |-> "none", kind |-> "none", outcome |-> "none",
                pre |-> NoEntity]
    /\ matching = [k \in PagedKinds |-> 0]
    /\ pcall = NoList
    /\ served = NoServed
    /\ inUse = 0
    /\ tpc = [p \in Procs |-> "idle"]
    /\ tend = [p \in Procs |-> "none"]
    /\ tfailed = [p \in Procs |-> "none"]
    /\ treleases = [p \in Procs |-> 0]
    /\ emailRows = [e \in Emails |-> 0]
    /\ rcall = [p \in Procs |-> NoRegister]
    /\ pubres = NoResponse

\* The plans repository under concurrent callers.
SpecPlans == Init /\ [][NextPlans]_vars

\* The content repository under concurrent callers.
SpecContent == Init /\ [][NextContent]_vars

\* The users table, the logins and the requests that pass the middleware.
SpecAuth == Init /\ [][NextAuth]_vars

\* One record under the repositories of the five entities.
SpecEntities == Init /\ [][NextEntities]_vars

\* The paginated lists over tables that grow and shrink.
SpecPaging == Init /\ [][NextPaging]_vars

\* The dispatch of GET requests by the routers.
SpecRouting == Init /\ [][NextRouting]_vars

\* The PUT handler of the content routes beside the partial updates.
SpecPut == Init /\ [][NextPut]_vars

\* The requests to POST /auth/register.
SpecRegister == Init /\ [][NextRegister]_vars

\* The read endpoints that ask for no credentials.
SpecPublic == Init /\ [][NextPublic]_vars

\* The callers of transaction() on the pool.
SpecPool == Init /\ [][NextPool]_vars

\* ------------------------------------------------------ claims on the plans
\* C1, as stated: at every moment at most one row of plans has
\* is_featured = true, whatever sequence or interleaving of Plan.create,
\* update, setFeatured, changeStatus, reorder and importFromJSON ran.
AtMostOneFeatured == Cardinality(FeaturedIds(plans)) <= 1

\* Two calls setFeatured(a, true) and setFeatured(b, true), a # b, that
\* overlapped have both committed.
BothFeaturedCommitted(p, q) ==
    /\ p # q
    /\ pc[p] = "idle" /\ pc[q] = "idle"
    /\ args[p].op = "setFeatured" /\ args[q].op = "setFeatured"
    /\ args[p].featured /\ args[q].featured
    /\ args[p].plan_id # args[q].plan_id
    /\ outcome[p] = "ok" /\ outcome[q] = "ok"
    /\ conc[p] /\ conc[q]

\* C2, as stated: after two concurrent calls setFeatured(a, true) and
\* setFeatured(b, true) with a # b have both committed, exactly one plan is
\* featured, never two.
ConcurrentSetFeaturedLeavesOne ==
    \A p, q \in Procs :
        BothFeaturedCommitted(p, q) => Cardinality(FeaturedIds(plans)) = 1

\* A call setFeatured(planId, true) that no other call overlapped has
\* committed.
FeaturedAloneCommitted(p) ==
    /\ pc[p] = "idle"
    /\ args[p].op = "setFeatured"
    /\ args[p].featured
    /\ outcome[p] = "ok"
    /\ solo[p]

\* C3: a single setFeatured(planId, true) with no concurrent writer leaves
\* exactly one featured plan, and it is planId, whatever was featured
\* before the call.
SetFeaturedAloneLeavesThatPlan ==
    \A p \in Procs :
        FeaturedAloneCommitted(p) => FeaturedIds(plans) = {args[p].plan_id}

\* C3's case: the call committed and every plan was featured before it.
SetFeaturedAloneReplacedSeveral ==
    \E p \in Procs :
        /\ FeaturedAloneCommitted(p)
        /\ FeaturedIds(pre[p]) = PlanIds

\* C4: while a transaction of setFeatured or reorder is in progress (and no
\* other writer runs), what a reader's query finds is the table as it was
\* before the call: getFeatured finds the plan it found before, never none
\* because the old one is already cleared, and the list shows none of the
\* display_order values written so far.
ReadersSeeNoPartialWrite ==
    \A p \in Procs :
        InTxn(p) /\ solo[p] =>
            /\ plans = pre[p]
            /\ getFeatured(plans) = getFeatured(pre[p])

\* C4's case: inside the transaction of setFeatured the old featured plan is
\* cleared and the new one not yet set, while a reader still finds one.
FeaturedClearedInsideTransaction ==
    \E p \in Procs :
        /\ solo[p]
        /\ pc[p] = "sf_set"
        /\ getFeatured(View(p)) = {}
        /\ getFeatured(plans) # {}

\* A call of reorder that no other call overlapped has failed.
ReorderAloneFailed(p) ==
    /\ pc[p] = "idle"
    /\ args[p].op = "reorder"
    /\ outcome[p] = "error"
    /\ solo[p]

\* C5: if the update of the Nth pair of a reorder fails, the call fails and
\* the display_order of every row is what it was before the call.
FailedReorderChangesNothing ==
    \A p \in Procs :
        ReorderAloneFailed(p) =>
            \A id \in PlanIds :
                /\ plans[id].present = pre[p][id].present
                /\ plans[id].display_order = pre[p][id].display_order

\* C5's case: the second pair failed after the first pair had given an
\* existing row a new display_order.
ReorderFailedAtSecondPair ==
    \E p \in Procs :
        /\ ReorderAloneFailed(p)
        /\ args[p].i = 2
        /\ pre[p][args[p].batch[1].plan_id].present
        /\ pre[p][args[p].batch[1].plan_id].display_order
             # args[p].batch[1].order


\* ---------------------------------------------------- claims on the content
\* Two calls of updatePartial on the section, with different dotted paths,
\* that overlapped have both completed.
BothPartialUpdatesDone(p, q) ==
    /\ p # q
    /\ cpc[p] = "idle" /\ cpc[q] = "idle"
    /\ cargs[p].op = "updatePartial" /\ cargs[q].op = "updatePartial"
    /\ cargs[p].path # cargs[q].path
    /\ coutcome[p] = "ok" /\ coutcome[q] = "ok"
    /\ cconc[p] /\ cconc[q]

\* C6, as stated: after two concurrent calls of Content.updatePartial on the
\* same section with different dotted paths have completed, the stored
\* document holds both new values, each at its path.
BothPartialUpdatesSurvive ==
    \A p, q \in Procs :
        BothPartialUpdatesDone(p, q) =>
            /\ valueAt(content.content_data, split(cargs[p].path, "."))
                 = cargs[p].value
            /\ valueAt(content.content_data, split(cargs[q].path, "."))
                 = cargs[q].value


\* A call of updatePartial that no other call overlapped has returned the
\* updated row.
PartialUpdateAloneDone(p) ==
    /\ cpc[p] = "idle"
    /\ cargs[p].op = "updatePartial"
    /\ coutcome[p] = "ok"
    /\ ~cconc[p]

\* The places of a document: the sequences of one or two keys.
KeyPaths == {<<k>> : k \in Keys} \cup {<<k, l>> : k \in Keys, l \in Keys}

\* One of the two key sequences is the beginning of the other.
Related(ks, path) ==
    LET n == IF Len(ks) < Len(path) THEN Len(ks) ELSE Len(path)
    IN SubSeq(ks, 1, n) = SubSeq(path, 1, n)

\* C11, as stated: a call of Content.updatePartial changes only the value at
\* its path; what the document holds at every place beside the path (the
\* sibling keys at each level, the other top-level keys), the section's name
\* and its status are the same before and after the call.
UpdatePartialTouchesOnlyItsPath ==
    \A p \in Procs :
        PartialUpdateAloneDone(p) =>
            /\ \A ks \in KeyPaths :
                 ~Related(ks, split(cargs[p].path, ".")) =>
                    valueAt(content.content_data, ks)
                      = valueAt(cpre[p].content_data, ks)
            /\ content.section_name = cpre[p].section_name
            /\ content.status = cpre[p].status

\* C12, as stated: a call of Content.updatePartial whose dotted path has an
\* intermediate key that the stored document does not hold creates the
\* intermediate objects: after the call the document holds the value at the
\* path.
UpdatePartialCreatesIntermediateObjects ==
    \A p \in Procs :
        LET path == split(cargs[p].path, ".") IN
        /\ PartialUpdateAloneDone(p)
        /\ cargs[p].value # Undefined
        /\ \E k \in 1..(Len(path) - 1) :
             valueAt(cpre[p].content_data, SubSeq(path, 1, k)) = Missing
        => valueAt(content.content_data, path) = cargs[p].value

\* ------------------------------------------------- claims on the middleware
\* The middleware of request r has finished and its route began with gate.
Done(r, gate) == req[r].pc = "done" /\ req[r].gate = gate

\* The token that request r carries.
sentToken(r) == decode(tokenOf(req[r].header))

\* authenticateToken ended request r itself, with a 401 or a 403.
RejectedByAuthenticateToken(r) ==
    /\ req[r].by = "authenticateToken"
    /\ req[r].code \in {401, 403}
    /\ req[r].nexts = 0
    /\ ~req[r].ran

\* C7, as stated: once a user's status has gone from active to inactive or
\* suspended, every later request with a token issued to that user before
\* the change, still unexpired and correctly signed, is rejected by
\* authenticateToken and never reaches the route handler.
RevokedTokenRejectedEverAfter ==
    \A r \in Reqs :
        /\ Done(r, "authenticateToken")
        /\ jwtVerify(tokenOf(req[r].header))
        /\ sentToken(r).revoked
        => RejectedByAuthenticateToken(r)

\* C7, amended: a request with an unexpired, correctly signed token whose
\* user is stored with a status other than active when the request looks the
\* user up is rejected by authenticateToken with 403 and never reaches the
\* route handler.
NonActiveUserRejected ==
    \A r \in Reqs :
        /\ Done(r, "authenticateToken")
        /\ jwtVerify(tokenOf(req[r].header))
        /\ req[r].fetched.found
        /\ req[r].fetched.status # "active"
        => RejectedByAuthenticateToken(r) /\ req[r].code = 403

\* C7's case: the token was issued before the user was deactivated, the
\* lookup succeeded and found the user still not active.
RevokedTokenSeenNonActive ==
    \E r \in Reqs :
        /\ Done(r, "authenticateToken")
        /\ jwtVerify(tokenOf(req[r].header))
        /\ sentToken(r).revoked
        /\ ~req[r].fetched.failed
        /\ req[r].fetched.found
        /\ req[r].fetched.status # "active"

\* C8, as stated: authenticateToken answers 401 exactly when no token is
\* present; 403 when the token is malformed, wrongly signed or expired, when
\* its subject matches no user or when that user's status is not active;
\* and otherwise calls next exactly once with req.user taken from the
\* stored user.
AuthenticateTokenAnswers ==
    \A r \in Reqs :
        Done(r, "authenticateToken") =>
            LET rq == req[r]
                tok == tokenOf(rq.header)
                answers403 ==
                    /\ RejectedByAuthenticateToken(r)
                    /\ rq.code = 403
            IN /\ (rq.by = "authenticateToken" /\ rq.code = 401)
                    <=> tok = <<>>
               /\ tok # <<>> =>
                    IF ~jwtVerify(tok) THEN answers403
                    ELSE IF ~rq.fetched.found \/ rq.fetched.status # "active"
                         THEN answers403
                         ELSE /\ rq.nexts = 1
                              /\ rq.by # "authenticateToken"
                              /\ rq.user = [set |-> TRUE,
                                            id |-> decode(tok).sub,
                                            role |-> rq.fetched.role]

\* C9: the handler behind requireRole(allowedRoles) runs only if the role
\* of the user as stored when the request looked the user up (not the role
\* written in the token) is in allowedRoles; otherwise the request ends with
\* 401 or 403 and the handler does not run, and the answer of requireRole
\* itself is 401 when no identity was resolved and 403 otherwise.
RequireRoleGuardsHandler ==
    \A r \in Reqs :
        req[r].pc = "done" /\ req[r].guard # "none" =>
            /\ req[r].ran =>
                 /\ ~req[r].fetched.failed
                 /\ req[r].fetched.found
                 /\ req[r].fetched.role \in allowedRoles(req[r].guard)
            /\ ~req[r].ran => req[r].code \in {401, 403}
            /\ req[r].by = "requireRole" =>
                 req[r].code = IF req[r].user.set THEN 403 ELSE 401

\* C9's case: the token says a role that is allowed, the stored role is
\* not, and requireRole answers 403.
StoredRoleOverridesToken ==
    \E r \in Reqs :
        /\ Done(r, "authenticateToken")
        /\ req[r].guard # "none"
        /\ req[r].by = "requireRole"
        /\ req[r].code = 403
        /\ sentToken(r).role \in allowedRoles(req[r].guard)
        /\ ~req[r].ran

\* C10: optionalAuth never ends the request: whatever the token, the user
\* and the outcome of the lookup, it sends no response and calls next
\* exactly once, and it sets req.user only when the token is valid and the
\* user found is active.
OptionalAuthNeverEndsRequest ==
    \A r \in Reqs :
        req[r].gate = "optionalAuth" =>
            /\ req[r].by # "optionalAuth"
            /\ req[r].pc = "done" =>
                 /\ req[r].nexts = 1
                 /\ req[r].user.set <=>
                      /\ jwtVerify(tokenOf(req[r].header))
                      /\ ~req[r].fetched.failed
                      /\ req[r].fetched.found
                      /\ req[r].fetched.status = "active"
            /\ req[r].pc # "done" => req[r].nexts = 0 /\ ~req[r].user.set

\* C10's case: the token is valid and the user active, the lookup threw, and
\* the handler ran without req.user.
OptionalAuthSurvivesStoreError ==
    \E r \in Reqs :
        /\ Done(r, "optionalAuth")
        /\ req[r].fetched.failed
        /\ req[r].fetched.found
        /\ req[r].fetched.status = "active"
        /\ req[r].nexts = 1
        /\ ~req[r].user.set
        /\ req[r].ran

\* ---------------------------------------------------- claims on the entities
\* C13: in every reachable state the status (estado) of the stored record is
\* a value of the enum of its entity.
StoredStatusInEnum == ent.present => ent.status \in enumOf(ent.kind)

\* C14: changeStatus (updateEstado for Lead) with a value outside the enum of
\* the entity fails on the check of the value: no statement is sent and the
\* record, its status and updated_at included, is what it was before the call.
ChangeStatusRejectsInvalidValue ==
    (ecall.op = "changeStatus" /\ ecall.status \notin enumOf(ecall.kind)) =>
        /\ ecall.outcome = "invalid"
        /\ ent = ecall.pre

\* C14's case: a record is stored and a changeStatus with a value outside
\* the enum has ended.
InvalidChangeStatusOnStoredRecord ==
    /\ ecall.op = "changeStatus"
    /\ ecall.status = "bogus"
    /\ ecall.pre.present
    /\ ecall.pre.kind = ecall.kind
    /\ ecall.outcome = "invalid"

\* C15: update with no allowed field that has a value fails on the check of
\* the fields, and the stored record, updated_at included, is what it was
\* before the call.
EmptyUpdateRejected ==
    (ecall.op = "update" /\ ecall.status = "none" /\ ecall.title = "") =>
        /\ ecall.outcome = "invalid"
        /\ ent = ecall.pre

\* C15's case: a record is stored, written at an earlier time of the store,
\* and an update with no allowed field has ended.
EmptyUpdateOnStoredRecord ==
    /\ ecall.op = "update"
    /\ ecall.status = "none"
    /\ ecall.title = ""
    /\ ecall.outcome = "invalid"
    /\ ecall.pre.present
    /\ ecall.pre.kind = ecall.kind
    /\ ent.present

\* The record as the client reads it, updated_at left out.
Fields(row) == [kind |-> row.kind, status |-> row.status, title |-> row.title]

\* A delete of a stored Service, Plan, Product or BlogPost that was active
\* (published) succeeded, and the changeStatus back to that status, which
\* followed it, succeeded.
RestoredAfterDelete ==
    /\ ecall.op = "changeStatus"
    /\ ecall.outcome = "ok"
    /\ ecall.status = listedStatus(ecall.kind)
    /\ eprev.op = "delete"
    /\ eprev.outcome = "ok"
    /\ eprev.kind = ecall.kind
    /\ eprev.pre.status = listedStatus(ecall.kind)
    /\ ecall.kind # "Lead"

\* C16: after delete and changeStatus back to active (published), the default
\* list returns the record, and its fields other than updated_at are those
\* it had before the delete.
SoftDeleteIsReversible ==
    RestoredAfterDelete =>
        /\ listResult(ecall.kind) = "listed"
        /\ Fields(ent) = Fields(eprev.pre)

\* C17: the lookup by business key of Service, Plan, Product and BlogPost
\* returns a row only if its status is active (published); a row with
\* another status is answered not-found.
LookupShowsOnlyListedStatus ==
    (ecall.op = "lookup" /\ ecall.kind # "Lead" /\ ecall.outcome = "found") =>
        ent.status = listedStatus(ecall.kind)

\* A lookup has ended that was called right after a create that stored a
\* record with a status of the enum.
LookupAfterCreate ==
    /\ ecall.op = "lookup"
    /\ eprev.op = "create"
    /\ eprev.outcome = "ok"
    /\ eprev.kind = ecall.kind
    /\ ent.status \in enumOf(ent.kind)

\* create stores the title and the status of the input (the default when
\* the input has none).
CreateStoresInput ==
    (ecall.op = "create" /\ ecall.outcome = "ok") =>
        /\ ent.present
        /\ ent.kind = ecall.kind
        /\ ent.title = ecall.title
        /\ ent.status = ecall.status

ListedWithPositivePageAndLimit ==
    /\ pcall.outcome # "none"
    /\ pcall.page.k = "int" /\ pcall.page.n >= 1
    /\ pcall.limit.k = "int" /\ pcall.limit.n >= 1

\* C19: a paginated list over total rows with page size limit succeeds,
\* reports pages = ceil(total / limit), returns min(limit, total - (k-1)*limit)
\* rows for a page k up to pages and no row for a page beyond pages.
PaginationReportsPagesAndRows ==
    ListedWithPositivePageAndLimit =>
        /\ pcall.outcome = "ok"
        /\ pcall.pagination.pages.k = "int"
        /\ LET total == pcall.pagination.total
               limit == pcall.limit.n
               pages == pcall.pagination.pages.n
               left == total - (pcall.page.n - 1) * limit
           IN /\ pages * limit >= total
              /\ (pages - 1) * limit < total
              /\ pcall.rows = IF pcall.page.n > pages THEN 0
                              ELSE IF limit < left THEN limit ELSE left

\* C20: whatever page and limit the client sends, the list uses a page and a
\* limit that are integers of 1 or more, the offset is not negative and the
\* request succeeds.
ListUsesPositivePageAndLimit ==
    pcall.outcome # "none" =>
        /\ ListedWithPositivePageAndLimit
        /\ pcall.offset.k = "int" /\ pcall.offset.n >= 0
        /\ pcall.outcome = "ok"

\* ------------------------------------------ claims on the rows addressed by key
\* C21: a call that changes the one row of a key (here archive, restore and
\* updatePartial of a section) fails with not-found when no row has the key;
\* it does not report success.
MutationOfMissingRowFails ==
    \A p \in Procs :
        (/\ cpc[p] = "idle"
         /\ cargs[p].op \in {"archive", "restore", "updatePartial"}
         /\ ~content.present) =>
            coutcome[p] # "ok"

\* The number of records of the batch before the first one that the store
\* rejects for a reason other than its key.
RECURSIVE AcceptedPrefix(_)
AcceptedPrefix(batch) ==
    IF batch = <<>> \/ Head(batch).rejected THEN 0
    ELSE 1 + AcceptedPrefix(Tail(batch))

\* C22: importFromJSON writes its records one by one, a record whose key
\* exists through update, and stops only at a record that fails with another
\* error: every record before that one is written, the row holds the title
\* of the last of them, and the call fails exactly when there is such a
\* record.
ImportFallsBackToUpdate ==
    ecall.op = "import" =>
        LET n == AcceptedPrefix(ecall.batch) IN
        /\ ecall.count = n
        /\ (ecall.outcome = "ok") <=> (n = Len(ecall.batch))
        /\ n > 0 => (ent.present /\ ent.title = ecall.batch[n].title)

\* ------------------------------------------------------ claims on the routes
\* A request that went through the middleware of DELETE route rt has ended.
DoneOnRoute(r, rt) ==
    /\ req[r].pc = "done"
    /\ req[r].gate = rt.gate
    /\ req[r].guard = rt.guard

\* C23: the handler of a DELETE route that removes a row runs only for a
\* caller whose role, as stored when the request looked the user up, is
\* admin; every DELETE route open to a role other than admin only changes
\* the status of the row.
OnlyAdminRemovesRows ==
    \A rt \in DeleteRoutes :
        /\ rt.effect = "remove" =>
             \A r \in Reqs :
                 (DoneOnRoute(r, rt) /\ req[r].ran) =>
                     /\ ~req[r].fetched.failed
                     /\ req[r].fetched.found
                     /\ req[r].fetched.role = "admin"
        /\ rt.guard # "requireAdmin" => rt.effect = "status"

\* C23's case: a stored editor with a valid token asked a route that removes
\* a row and was answered 403 before the handler.
EditorRefusedOnRemovingRoute ==
    \E r \in Reqs, rt \in DeleteRoutes :
        /\ rt.effect = "remove"
        /\ DoneOnRoute(r, rt)
        /\ jwtVerify(tokenOf(req[r].header))
        /\ req[r].fetched.found
        /\ req[r].fetched.status = "active"
        /\ req[r].fetched.role = "editor"
        /\ req[r].code = 403
        /\ ~req[r].ran

\* C24: a GET for a literal path of a router is served by the handler
\* declared for that literal path, never by the handler of a route with a
\* parameter.
LiteralPathServedByItsHandler ==
    served.router # "none" =>
        \A i \in 1..Len(GetRoutes(served.router)) :
            LET pattern == GetRoutes(served.router)[i] IN
            (/\ Len(pattern) = Len(served.path)
             /\ \A j \in 1..Len(pattern) :
                  ~pattern[j].param /\ pattern[j].text = served.path[j]) =>
                served.handler = i

\* ------------------------------------------- claims on calls on missing plans
\* A call setFeatured(planId, true) that no other call overlapped has ended,
\* and no row had the plan_id when it started.
FeaturedAloneOnMissingPlan(p) ==
    /\ pc[p] = "idle"
    /\ args[p].op = "setFeatured"
    /\ args[p].featured
    /\ solo[p]
    /\ ~pre[p][args[p].plan_id].present

\* C25: setFeatured(planId, true) for a planId that matches no row fails
\* (with not-found, unless the store failed first) and the table, the
\* featured plans included, is what it was before the call: the clearing of
\* the featured plan is rolled back.
SetFeaturedOnMissingPlanChangesNothing ==
    \A p \in Procs :
        FeaturedAloneOnMissingPlan(p) =>
            /\ outcome[p] \in {"notfound", "error"}
            /\ plans = pre[p]

\* C25's case: a plan was featured, setFeatured(planId, true) named a plan
\* that does not exist, and the call ended with not-found.
SetFeaturedMissingWhileOneFeatured ==
    \E p \in Procs :
        /\ FeaturedAloneOnMissingPlan(p)
        /\ outcome[p] = "notfound"
        /\ \E id \in PlanIds : pre[p][id].present /\ pre[p][id].is_featured

\* C29: a reorder whose list names a plan_id that matches no row fails and
\* leaves the display_order of every row as it was.
ReorderWithMissingKeyFails ==
    \A p \in Procs :
        (/\ pc[p] = "idle"
         /\ args[p].op = "reorder"
         /\ solo[p]
         /\ \E i \in 1..Len(args[p].batch) :
              ~pre[p][args[p].batch[i].plan_id].present) =>
            /\ outcome[p] # "ok"
            /\ \A id \in PlanIds :
                 plans[id].display_order = pre[p][id].display_order

\* ----------------------------------------------------------- claims on the pool
\* C26: transaction(callback) gives its client back exactly once on every
\* path that took one - the callback returned or threw, BEGIN, COMMIT or
\* ROLLBACK failed - so the clients checked out are those of the calls in
\* progress and calls that failed hold none.
ClientReleasedExactlyOnce ==
    /\ inUse = Cardinality({p \in Procs :
                              tpc[p] \in TxSteps \cup {"rollback", "finally"}})
    /\ inUse <= PoolMax
    /\ \A p \in Procs :
         (tpc[p] = "idle" /\ tend[p] # "none") =>
             treleases[p] = IF tfailed[p] = "connect" THEN 0 ELSE 1

\* C26's case: the callback threw, the ROLLBACK failed too, and the call
\* ended with its client released while another caller holds none.
RollbackFailedAndClientReleased ==
    \E p \in Procs :
        /\ tpc[p] = "idle"
        /\ tend[p] = "error"
        /\ tfailed[p] = "rollback"
        /\ treleases[p] = 1
        /\ inUse = 0

\* ------------------------------------------------------ claims on the PUT
\* C27: a PUT that supplies no content_data leaves content_data as it is
\* when its upsert runs, if a partial update of the section was committed
\* after the PUT read the row.
PutWithoutContentDataKeepsPartialUpdate ==
    [][\A p \in Procs :
         ( /\ cpc[p] = "put_upsert"
           /\ cpc'[p] = "idle"
           /\ cread[p].body.content_data = Undefined
           /\ \E q \in Procs \ {p} :
                /\ cargs[q].op = "updatePartial"
                /\ cpc[q] = "idle"
                /\ coutcome[q] = "ok" )
         => content'.content_data = content.content_data]_vars

\* ------------------------------------------------------ claims on register
\* C28: when two requests of admins to register the same new email ran
\* concurrently and both have answered, one row with that email is stored,
\* one request answered 201 and the other 409.
ConcurrentRegisterStoresOneRow ==
    \A p, q \in Procs :
        ( /\ p # q
          /\ rcall[p].pc = "idle" /\ rcall[q].pc = "idle"
          /\ rcall[p].email = rcall[q].email
          /\ rcall[p].fresh /\ rcall[q].fresh
          /\ rcall[p].overlapped /\ rcall[q].overlapped )
        => /\ emailRows[rcall[p].email] = 1
           /\ {rcall[p].answer, rcall[q].answer} = {201, 409}

\* ------------------------------------------------- claims on public reads
\* C30: a response of a list or a lookup by key of content, blog, planes or
\* servicios to a caller without credentials holds no row whose status is
\* not active (published for content and blog), whatever status and
\* includeInactive the query carries.
PublicReadShowsOnlyPublished ==
    (pubres.op # "none" /\ ~pubres.authed) =>
        pubres.rows \subseteq {publishedStatus(pubres.kind)}

=============================================================================
